---------------------------- MODULE Spec2Model ----------------------------
(***************************************************************************)
(* repo-cloak: the anonymization and mapping engine.                       *)
(*                                                                         *)
(*   - the case-preserving substitution engine (core/anonymizer.js) and    *)
(*     the path variant the copier uses (core/copier.js);                  *)
(*   - the mapping store (core/mapper.js) as the pull command drives it;   *)
(*   - the crypto provider (core/crypto.js).                               *)
(*                                                                         *)
(* A JavaScript string is a sequence of one-character strings.             *)
(***************************************************************************)
EXTENDS Integers, Sequences, FiniteSets, TLC

VARIABLES
    \* substitution engine
    anonPc,        \* "start" | "anonymized" | "restored" | "path"
    content,       \* the text (or relative path) handed to the transform
    replacements,  \* the rule list [{original, replacement}]
    cloaked,       \* createAnonymizer(replacements)(content)
    restored,      \* createDeanonymizer(replacements)(cloaked)
    anonymizedPath, \* copier's anonymizePath(content, replacements)
    \* mapping store
    mapFile,       \* <destDir>/.repo-cloak-map.json: NoFile, or what the file holds
    clock,         \* the time new Date() reads
    lastPull,      \* what the last pull did: its inputs and the record it saved
    mergeCount,    \* merges into the record since it was created
    \* crypto provider
    encLog,        \* the encrypt calls made: text, secret, nonce drawn, result
    decCall,       \* the last decrypt call: its input, secret and outcome
    \* the user secret: ~/.repo-cloak/secret.key
    secretFile,    \* the content of the secret file, or NoSecret
    secretPc,      \* per process: where it is inside getOrCreateSecret
    returned,      \* the calls of getOrCreateSecret that returned since the file was last deleted
    \* push
    pushPc,        \* "start" | "manual" | "ready" | "done"
    rawMapping,    \* the record loadMapping returned
    plainRecord,   \* what was encrypted into rawMapping
    decOutcome,    \* the outcome of the decryptMapping call, if one was made
    pushMapping,   \* mapping, after Step 4
    answers,       \* what the user typed at the manual-recovery prompts
    manualReplacements, \* the list the manual-recovery loop builds
    validReplacements, \* the rules handed to createDeanonymizer
    \* saveMapping and loadMapping
    lastSaved,     \* the record passed to the most recent saveMapping
    loadCall,      \* the last loadMapping call: the file before and after, the outcome
    saveCount,      \* saveMapping calls so far
    \* decryptReplacements
    batchCall,      \* the last decryptReplacements call: input, secret, result
    \* copyFiles
    copyPc,        \* "loop" | "returned" | "idle"
    fileList,      \* files: what copyFiles was asked to copy, with what the disk does for each
    copyArgs,      \* transformFn (supplied or not) and replacements, as passed by the caller
    loopIndex,     \* i of the for loop
    results,       \* the results object copyFiles builds
    destTree,      \* the destination directory: path -> bytes written
    copyTrace,      \* what happened, in order: file starts, transform calls, file results, progress calls
    \* scanner, and the file lists of pull and push
    treePc,        \* "start" | "selected" | "pulled" | "scanned" | "restored" | "idle"
    sourceTree,    \* the directory pull reads: its files, and the directories that cannot be read
    gitChanged,    \* what git status reports in that directory
    pulled,        \* selectedFiles of pull, as relative paths
    cloakedTree,   \* the destination of pull, which is the directory push reads
    mappedFiles,   \* the cloaked paths of mapping.files
    pushFiles,     \* files of push: getAllFiles(cloakedDir)
    restoredTree,   \* the destination of push
    \* the file selector (ui/fileSelector.js)
    selPc,          \* where selectFiles is: "idle", "start", "prompt", "paging", "returned"
    selTree,        \* the directory selectFiles was given
    selectedPaths,  \* the Set of selected file paths
    filtered,       \* the index entries that match the current filter
    page,           \* the page of filtered that is shown
    filterRounds,   \* how many filters have been shown so far
    everAdded,      \* history: the files that were added to the selection
    excused         \* history: the files the user unticked since they were added

anonVars == <<anonPc, content, replacements, cloaked, restored, anonymizedPath>>
mapVars == <<mapFile, clock, lastPull, mergeCount>>
cryptoVars == <<encLog, decCall>>
secretVars == <<secretFile, secretPc, returned>>
pushVars == <<pushPc, rawMapping, plainRecord, decOutcome, pushMapping,
              answers, manualReplacements, validReplacements>>
storeVars == <<lastSaved, loadCall, saveCount>>
batchVars == <<batchCall>>
copyVars == <<copyPc, fileList, copyArgs, loopIndex, results, destTree, copyTrace>>
scanVars == <<treePc, sourceTree, gitChanged, pulled, cloakedTree, mappedFiles,
              pushFiles, restoredTree>>
selectVars == <<selPc, selTree, selectedPaths, filtered, page, filterRounds, everAdded, excused>>
restVars == <<secretVars, pushVars, storeVars, batchVars, copyVars, scanVars, selectVars>>

vars == <<anonVars, mapVars, cryptoVars, restVars>>

-----------------------------------------------------------------------------
(* Bounds *)

\* longest text / relative path handed to a transform
MaxTextLen == 2
\* total number of characters of the keywords of a rule list
MaxRuleChars == 4
\* pulls into one destination directory
MaxPulls == 3
\* files selected in one pull
MaxSelected == 2
\* longest plaintext given to encrypt
MaxPlainLen == 1
\* encrypt calls in one run
MaxEncrypts == 2
\* distinct values randomBytes can return
NonceCount == 2
\* getOrCreateSecret calls that return between two deletions of the file
MaxSecretCalls == 4
\* saveMapping calls on one directory
MaxSaves == 3
\* longest list given to decryptReplacements
MaxBatch == 2
\* longest file list given to copyFiles
MaxFiles == 2
\* rewrites of one destination's mapping record
MaxRewrites == 3

-----------------------------------------------------------------------------
(* Strings *)

\* two letters in both cases and one caseless regex metacharacter
Chars == {"a", "A", "b", "B", "."}

toUpperCaseChar(c) == CASE c = "a" -> "A" [] c = "b" -> "B" [] OTHER -> c
toLowerCaseChar(c) == CASE c = "A" -> "a" [] c = "B" -> "b" [] OTHER -> c

\* String.prototype.toUpperCase / toLowerCase
toUpperCase(s) == [i \in 1..Len(s) |-> toUpperCaseChar(s[i])]
toLowerCase(s) == [i \in 1..Len(s) |-> toLowerCaseChar(s[i])]

StringsUpTo(n) == UNION {[1..k -> Chars] : k \in 0..n}
KeysUpTo(n) == UNION {[1..k -> Chars] : k \in 1..n}

-----------------------------------------------------------------------------
(* The regular expression new RegExp(escapeRegex(original), 'gi') *)

\* the character class of escapeRegex: [.*+?^${}()|[\]\\]
RegexSpecial ==
    {".", "*", "+", "?", "^", "$", "{", "}", "(", ")", "|", "[", "]", "\\"}

\* string.replace(/[.*+?^${}()|[\]\\]/g, '\\$&'): a backslash before each
\* special character
RECURSIVE escapeRegex(_)
escapeRegex(string) ==
    IF string = <<>> THEN <<>>
    ELSE (IF Head(string) \in RegexSpecial
          THEN <<"\\", Head(string)>>
          ELSE <<Head(string)>>) \o escapeRegex(Tail(string))

\* new RegExp(source, 'gi'): the pattern as a sequence of atoms. An escaped
\* character is a literal, a bare "." matches any character.
RECURSIVE RegExp(_)
RegExp(source) ==
    IF source = <<>> THEN <<>>
    ELSE IF Head(source) = "\\" /\ Len(source) >= 2
         THEN <<[any |-> FALSE, ch |-> source[2]]>>
                  \o RegExp(SubSeq(source, 3, Len(source)))
    ELSE IF Head(source) = "."
         THEN <<[any |-> TRUE, ch |-> "."]>> \o RegExp(Tail(source))
    ELSE <<[any |-> FALSE, ch |-> Head(source)]>> \o RegExp(Tail(source))

\* flag i: characters are compared after canonicalisation
AtomMatches(atom, c) ==
    atom.any \/ toUpperCaseChar(atom.ch) = toUpperCaseChar(c)

MatchAt(str, regex, p) ==
    /\ p + Len(regex) - 1 <= Len(str)
    /\ \A k \in 1..Len(regex) : AtomMatches(regex[k], str[p + k - 1])

-----------------------------------------------------------------------------
(* matchCase: anonymizer.js and its copy in copier.js *)

\* a plausible slip: the all-lower-case branch is missing
matchCase_noLowerBranch(original, replacement) ==
    IF original = toUpperCase(original) THEN toUpperCase(replacement)
    ELSE IF original[1] = toUpperCaseChar(original[1])
         THEN IF replacement = <<>> THEN <<>>
              ELSE <<toUpperCaseChar(replacement[1])>>
                       \o toLowerCase(Tail(replacement))
    ELSE replacement

matchCase(original, replacement) ==
    IF original = toUpperCase(original) THEN toUpperCase(replacement)
    ELSE IF original = toLowerCase(original) THEN toLowerCase(replacement)
    ELSE IF original[1] = toUpperCaseChar(original[1])
         THEN IF replacement = <<>> THEN <<>>
              ELSE <<toUpperCaseChar(replacement[1])>>
                       \o toLowerCase(Tail(replacement))
    ELSE replacement

copier_matchCase(original, replacement) ==
    IF original = toUpperCase(original) THEN toUpperCase(replacement)
    ELSE IF original = toLowerCase(original) THEN toLowerCase(replacement)
    ELSE IF original[1] = toUpperCaseChar(original[1])
         THEN IF replacement = <<>> THEN <<>>
              ELSE <<toUpperCaseChar(replacement[1])>> \o Tail(replacement)
    ELSE replacement

\* the replacer callback of each caller of String.prototype.replace
Replacer(caller, match, replacement) ==
    CASE caller = "anonymizer" -> matchCase(match, replacement)
      [] caller = "copier" -> copier_matchCase(match, replacement)
      [] caller = "pull" -> replacement

\* String.prototype.replace with a global regex and a replacer function:
\* leftmost matches, left to right, never overlapping; the text emitted for
\* a match is not rescanned. Keywords are never empty (prompts.js trims them
\* and ends the list on an empty original).
RECURSIVE replaceFrom(_, _, _, _, _)
replaceFrom(str, regex, caller, replacement, p) ==
    IF p > Len(str) THEN <<>>
    ELSE IF Len(regex) > 0 /\ MatchAt(str, regex, p)
         THEN Replacer(caller, SubSeq(str, p, p + Len(regex) - 1), replacement)
                  \o replaceFrom(str, regex, caller, replacement, p + Len(regex))
    ELSE <<str[p]>> \o replaceFrom(str, regex, caller, replacement, p + 1)

replace(str, regex, caller, replacement) ==
    replaceFrom(str, regex, caller, replacement, 1)

-----------------------------------------------------------------------------
(* createAnonymizer / createDeanonymizer (callers never pass caseSensitive) *)

\* the for..of loop of the returned transform, from rule i on
RECURSIVE anonymizerLoop(_, _, _)
anonymizerLoop(rules, result, i) ==
    IF i > Len(rules) THEN result
    ELSE anonymizerLoop(rules,
             replace(result, RegExp(escapeRegex(rules[i].original)),
                     "anonymizer", rules[i].replacement),
             i + 1)

\* a plausible slip: every rule is applied to the input, not to the running
\* result
RECURSIVE isolatedLoop(_, _, _, _)
isolatedLoop(rules, input, result, i) ==
    IF i > Len(rules) THEN result
    ELSE isolatedLoop(rules, input,
             replace(input, RegExp(escapeRegex(rules[i].original)),
                     "anonymizer", rules[i].replacement),
             i + 1)

createAnonymizer_isolated(rules, text) ==
    IF Len(rules) = 0 THEN text ELSE isolatedLoop(rules, text, text, 1)

createAnonymizer(rules, text) ==
    IF Len(rules) = 0 THEN text ELSE anonymizerLoop(rules, text, 1)

reversedRules(rules) ==
    [i \in 1..Len(rules) |->
        [original |-> rules[i].replacement, replacement |-> rules[i].original]]

\* a plausible slip: the pairs are not swapped
createDeanonymizer_unswapped(rules, text) == createAnonymizer(rules, text)

createDeanonymizer(rules, text) ==
    IF Len(rules) = 0 THEN text
    ELSE createAnonymizer(reversedRules(rules), text)

\* copier.js anonymizePath
RECURSIVE copierPathLoop(_, _, _)
copierPathLoop(rules, result, i) ==
    IF i > Len(rules) THEN result
    ELSE copierPathLoop(rules,
             replace(result, RegExp(escapeRegex(rules[i].original)),
                     "copier", rules[i].replacement),
             i + 1)

copier_anonymizePath(relativePath, rules) ==
    IF Len(rules) = 0 THEN relativePath
    ELSE copierPathLoop(rules, relativePath, 1)

-----------------------------------------------------------------------------
(* The substitution engine driven by pull (anonymize) and push (restore) *)

RuleSetOf(keyLen) == [original : KeysUpTo(keyLen), replacement : KeysUpTo(keyLen)]

\* rule lists of n rules whose keywords share MaxRuleChars characters
RuleLists ==
    {<<>>} \cup
    UNION {[1..n -> RuleSetOf(MaxRuleChars \div (2 * n))] :
               n \in 1..(MaxRuleChars \div 2)}

\* the other components at rest
MapIdle ==
    /\ mapFile = [exists |-> FALSE]
    /\ clock = 0
    /\ lastPull = [kind |-> "none"]
    /\ mergeCount = 0

CryptoIdle ==
    /\ encLog = <<>>
    /\ decCall = [kind |-> "none"]

SecretIdle ==
    /\ secretFile = "none"
    /\ secretPc = <<>>
    /\ returned = <<>>

PushIdle ==
    /\ pushPc = "idle"
    /\ rawMapping = <<>>
    /\ plainRecord = <<>>
    /\ decOutcome = [kind |-> "none"]
    /\ pushMapping = <<>>
    /\ answers = <<>>
    /\ manualReplacements = <<>>
    /\ validReplacements = <<>>

StoreIdle ==
    /\ lastSaved = [kind |-> "none"]
    /\ loadCall = [kind |-> "none"]
    /\ saveCount = 0

BatchIdle == batchCall = [kind |-> "none"]

CopyIdle ==
    /\ copyPc = "idle"
    /\ fileList = <<>>
    /\ copyArgs = [kind |-> "none"]
    /\ loopIndex = 0
    /\ results = [kind |-> "none"]
    /\ destTree = {}
    /\ copyTrace = <<>>

ScanIdle ==
    /\ treePc = "idle"
    /\ sourceTree = [files |-> {}, unreadable |-> {}]
    /\ gitChanged = {}
    /\ pulled = <<>>
    /\ cloakedTree = [files |-> {}, unreadable |-> {}]
    /\ mappedFiles = <<>>
    /\ pushFiles = <<>>
    /\ restoredTree = {}

SelectIdle ==
    /\ selPc = "idle"
    /\ selTree = [files |-> {}, unreadable |-> {}]
    /\ selectedPaths = {}
    /\ filtered = <<>>
    /\ page = 0
    /\ filterRounds = 0
    /\ everAdded = {}
    /\ excused = {}

RestIdle == SecretIdle /\ PushIdle /\ StoreIdle /\ BatchIdle /\ CopyIdle /\ ScanIdle /\ SelectIdle

AnonIdle ==
    /\ anonPc = "idle"
    /\ content = <<>>
    /\ replacements = <<>>
    /\ cloaked = <<>>
    /\ restored = <<>>
    /\ anonymizedPath = <<>>

InitAnon ==
    /\ anonPc = "start"
    /\ content \in StringsUpTo(MaxTextLen)
    /\ replacements \in RuleLists
    /\ cloaked = <<>>
    /\ restored = <<>>
    /\ anonymizedPath = <<>>
    /\ MapIdle
    /\ CryptoIdle
    /\ RestIdle

\* pull: const anonymizer = createAnonymizer(replacements); anonymizer(content)
Anonymize ==
    /\ anonPc = "start"
    /\ cloaked' = createAnonymizer(replacements, content)
    /\ anonPc' = "anonymized"
    /\ UNCHANGED <<content, replacements, restored, anonymizedPath>>
    /\ UNCHANGED <<mapVars, cryptoVars, restVars>>

\* push: createDeanonymizer(replacements) applied to the cloaked text
Deanonymize ==
    /\ anonPc = "anonymized"
    /\ restored' = createDeanonymizer(replacements, cloaked)
    /\ anonPc' = "restored"
    /\ UNCHANGED <<content, replacements, cloaked, anonymizedPath>>
    /\ UNCHANGED <<mapVars, cryptoVars, restVars>>

\* copyFiles: const anonymizedPath = anonymizePath(originalRelativePath, replacements)
AnonymizePath ==
    /\ anonPc = "start"
    /\ anonymizedPath' = copier_anonymizePath(content, replacements)
    /\ anonPc' = "path"
    /\ UNCHANGED <<content, replacements, cloaked, restored>>
    /\ UNCHANGED <<mapVars, cryptoVars, restVars>>

NextAnon == Anonymize \/ Deanonymize \/ AnonymizePath

SpecAnon == InitAnon /\ [][NextAnon]_vars

-----------------------------------------------------------------------------
(* Case classes of a string, character by character *)

IsLetter(c) == toUpperCaseChar(c) # toLowerCaseChar(c)
EntirelyUpper(s) == \A i \in 1..Len(s) : s[i] = toUpperCaseChar(s[i])
EntirelyLower(s) == \A i \in 1..Len(s) : s[i] = toLowerCaseChar(s[i])
TitleCase(s) ==
    /\ Len(s) >= 1
    /\ s[1] = toUpperCaseChar(s[1])
    /\ \A i \in 2..Len(s) : s[i] = toLowerCaseChar(s[i])
CaseRegular(s) == EntirelyUpper(s) \/ EntirelyLower(s) \/ TitleCase(s)

\* key occurs in str at position p, ignoring case
OccursAt(str, key, p) ==
    /\ p >= 1
    /\ p + Len(key) - 1 <= Len(str)
    /\ \A k \in 1..Len(key) :
           toLowerCaseChar(str[p + k - 1]) = toLowerCaseChar(key[k])

Occurrences(str, key) == {p \in 1..Len(str) : OccursAt(str, key, p)}

\* some proper prefix of s is also a suffix of s, ignoring case
Bordered(s) ==
    \E k \in 1..(Len(s) - 1) :
        \A j \in 1..k :
            toLowerCaseChar(s[j]) = toLowerCaseChar(s[Len(s) - k + j])

-----------------------------------------------------------------------------
(* C2: the case adjustment policy *)

\* the text the policy emits for a match m of a rule with this replacement
PolicyText(m, replacement) ==
    IF EntirelyUpper(m) THEN [i \in 1..Len(replacement) |->
                                  toUpperCaseChar(replacement[i])]
    ELSE IF EntirelyLower(m) THEN [i \in 1..Len(replacement) |->
                                       toLowerCaseChar(replacement[i])]
    ELSE IF m[1] = toUpperCaseChar(m[1])
         THEN [i \in 1..Len(replacement) |->
                  IF i = 1 THEN toUpperCaseChar(replacement[i])
                  ELSE toLowerCaseChar(replacement[i])]
    ELSE replacement

\* str with every case-insensitive occurrence of the rule's original, left to
\* right and not overlapping, replaced by the policy's text
RECURSIVE PolicyRewrite(_, _, _)
PolicyRewrite(str, rule, p) ==
    IF p > Len(str) THEN <<>>
    ELSE IF OccursAt(str, rule.original, p)
         THEN PolicyText(SubSeq(str, p, p + Len(rule.original) - 1),
                         rule.replacement)
                  \o PolicyRewrite(str, rule, p + Len(rule.original))
    ELSE <<str[p]>> \o PolicyRewrite(str, rule, p + 1)

RECURSIVE PolicyRewriteAll(_, _, _)
PolicyRewriteAll(rules, str, i) ==
    IF i > Len(rules) THEN str
    ELSE PolicyRewriteAll(rules, PolicyRewrite(str, rules[i], 1), i + 1)

\* C2: every case-insensitive match of a rule's original is replaced by the
\* replacement upper-cased when the match is entirely upper-case, else
\* lower-cased when it is entirely lower-case, else with its first character
\* upper-cased and the rest lower-cased when the match's first character is
\* upper-case, else unchanged.
C2_CasePolicy ==
    anonPc \in {"anonymized", "restored"} =>
        cloaked = PolicyRewriteAll(replacements, content, 1)

\* a Title Case match whose replacement has an upper-case letter in its tail
C2_Witness ==
    /\ anonPc = "anonymized"
    /\ Len(replacements) = 1
    /\ Len(content) = Len(replacements[1].original)
    /\ OccursAt(content, replacements[1].original, 1)
    /\ ~EntirelyUpper(content) /\ ~EntirelyLower(content)
    /\ content[1] = toUpperCaseChar(content[1])
    /\ \E i \in 2..Len(replacements[1].replacement) :
           /\ IsLetter(replacements[1].replacement[i])
           /\ replacements[1].replacement[i]
                  = toUpperCaseChar(replacements[1].replacement[i])
    /\ cloaked # replacements[1].replacement

-----------------------------------------------------------------------------
(* C3: rules are applied one after another to the running result *)

RECURSIVE OneByOne(_, _, _)
OneByOne(rules, str, i) ==
    IF i > Len(rules) THEN str
    ELSE OneByOne(rules, createAnonymizer(<<rules[i]>>, str), i + 1)

\* C3: the output for [r1..rn] is the single-rule transform of r1, then of
\* r2, ..., then of rn, each applied to the result of the one before.
C3_Sequential ==
    anonPc \in {"anonymized", "restored"} =>
        cloaked = OneByOne(replacements, content, 1)

\* the second rule matches nothing in the input, yet rewrites what the first
\* rule emitted
C3_Witness ==
    /\ anonPc = "anonymized"
    /\ Len(replacements) = 2
    /\ createAnonymizer(<<replacements[2]>>, content) = content
    /\ cloaked # createAnonymizer(<<replacements[1]>>, content)

-----------------------------------------------------------------------------
(* C4: the path rewrite of copyFiles against the content transform *)

\* C4: the destination path copyFiles computes for a relative path P is
\* createAnonymizer(R)(P).
C4_PathSameAsContent ==
    anonPc = "path" =>
        anonymizedPath = createAnonymizer(replacements, content)

-----------------------------------------------------------------------------
(* C1: round trip of the substitution engine *)

\* C1 as claimed: whenever every rule's original is all-upper, all-lower or
\* Title Case, de-anonymizing the anonymized text gives the text back.
C1_RoundTrip ==
    (/\ anonPc = "restored"
     /\ \A i \in 1..Len(replacements) : CaseRegular(replacements[i].original))
        => restored = content

\* the hypotheses under which one rule round-trips
RoundTripHypotheses ==
    /\ Len(replacements) = 1
    /\ CaseRegular(replacements[1].original)
    \* the replacement is not already in the text
    /\ Occurrences(content, replacements[1].replacement) = {}
    \* and cannot straddle the edge of an emitted replacement
    /\ ~Bordered(replacements[1].replacement)
    \* every occurrence to replace is all-upper, all-lower or Title Case
    /\ \A p \in Occurrences(content, replacements[1].original) :
           CaseRegular(SubSeq(content, p,
                              p + Len(replacements[1].original) - 1))
    \* the replacement can carry each of these classes
    /\ IsLetter(replacements[1].replacement[1])
    /\ \E i \in 2..Len(replacements[1].replacement) :
           IsLetter(replacements[1].replacement[i])

\* C1 amended: for a single rule whose original is all-upper, all-lower or
\* Title Case, de-anonymizing the anonymized text gives the text back when
\* the replacement does not occur in the text (ignoring case), no proper
\* prefix of the replacement is also its suffix, every occurrence of the
\* original in the text is all-upper, all-lower or Title Case, and the
\* replacement starts with a letter and has a letter after it.
C1_RoundTripAmended ==
    (anonPc = "restored" /\ RoundTripHypotheses) => restored = content

\* a Title Case occurrence inside a longer text went there and back
C1_Witness ==
    /\ anonPc = "restored"
    /\ RoundTripHypotheses
    /\ Occurrences(content, replacements[1].original) # {}
    /\ \E p \in Occurrences(content, replacements[1].original) :
           LET m == SubSeq(content, p, p + Len(replacements[1].original) - 1)
           IN  ~EntirelyUpper(m) /\ ~EntirelyLower(m)
    /\ cloaked # content
    /\ restored = content

-----------------------------------------------------------------------------
(* The mapping store: core/mapper.js *)

\* JavaScript's undefined, as a string no path can equal
Undefined == <<"undefined">>

\* obj.name, undefined when the object has no such property
Field(obj, name) == IF name \in DOMAIN obj THEN obj[name] ELSE Undefined

NoFile == [exists |-> FALSE]

\* a plausible slip: totalFiles counts the rules
createMapping_statsSwapped(options) ==
    [version |-> "1.0.0",
     tool |-> "repo-cloak",
     timestamp |-> options.timestamp,
     source |-> [path |-> options.sourceDir, platform |-> "linux"],
     destination |-> [path |-> options.destDir],
     replacements |-> [i \in 1..Len(options.replacements) |->
         [original |-> options.replacements[i].original,
          replacement |-> options.replacements[i].replacement]],
     files |-> [i \in 1..Len(options.files) |->
         [original |-> Field(options.files[i], "relativePath"),
          cloaked |-> Field(options.files[i], "relativePath")]],
     stats |-> [totalFiles |-> Len(options.replacements),
                replacementsCount |-> Len(options.replacements)]]

\* createMapping: every caller passes file objects, so typeof f === 'string'
\* is false and both fields are f.relativePath
createMapping(options) ==
    [version |-> "1.0.0",
     tool |-> "repo-cloak",
     timestamp |-> options.timestamp,
     source |-> [path |-> options.sourceDir, platform |-> "linux"],
     destination |-> [path |-> options.destDir],
     replacements |-> [i \in 1..Len(options.replacements) |->
         [original |-> options.replacements[i].original,
          replacement |-> options.replacements[i].replacement]],
     files |-> [i \in 1..Len(options.files) |->
         [original |-> Field(options.files[i], "relativePath"),
          cloaked |-> Field(options.files[i], "relativePath")]],
     stats |-> [totalFiles |-> Len(options.files),
                replacementsCount |-> Len(options.replacements)]]

\* JSON.stringify then JSON.parse of a files entry: a property whose value is
\* undefined is not written
JsonObject(obj) == [k \in {n \in DOMAIN obj : obj[n] # Undefined} |-> obj[k]]

\* saveMapping writes JSON.stringify(mapping); what a later load parses
JsonRecord(mapping) ==
    [mapping EXCEPT !.files = [i \in 1..Len(mapping.files) |->
                                   JsonObject(mapping.files[i])]]

hasMapping == mapFile # NoFile

\* the pullHistory of a record, [] when it has none
HistoryOf(mapping) ==
    IF "pullHistory" \in DOMAIN mapping THEN mapping.pullHistory ELSE <<>>

\* the entries of newFiles whose original is not in existing.files
NetNew(existing, newFiles) ==
    SelectSeq(newFiles,
        LAMBDA f : \A i \in 1..Len(existing.files) :
                       Field(existing.files[i], "original") # f.original)

\* a plausible slip: every new file is appended, a duplicate too
mergeMapping_noDedup(existing, newFiles, now) ==
    LET files == existing.files \o newFiles
        entry == [timestamp |-> now,
                  filesAdded |-> Len(newFiles),
                  totalFiles |-> Len(files)]
    IN  [k \in DOMAIN existing \cup {"pullHistory"} |->
            CASE k = "files" -> files
              [] k = "stats" -> [existing.stats EXCEPT !.totalFiles = Len(files)]
              [] k = "pullHistory" -> Append(HistoryOf(existing), entry)
              [] OTHER -> existing[k]]

\* a plausible slip: the history is restarted on every merge
\* a plausible slip: the merge also stamps the record with the time of the pull
mergeMapping_restamped(existing, newFiles, now) ==
    LET added == NetNew(existing, newFiles)
        files == existing.files \o added
        entry == [timestamp |-> now,
                  filesAdded |-> Len(added),
                  totalFiles |-> Len(files)]
    IN  [k \in DOMAIN existing \cup {"pullHistory"} |->
            CASE k = "files" -> files
              [] k = "stats" -> [existing.stats EXCEPT !.totalFiles = Len(files)]
              [] k = "pullHistory" -> Append(HistoryOf(existing), entry)
              [] k = "timestamp" -> now
              [] OTHER -> existing[k]]

mergeMapping_historyReset(existing, newFiles, now) ==
    LET added == NetNew(existing, newFiles)
        files == existing.files \o added
        entry == [timestamp |-> now,
                  filesAdded |-> Len(added),
                  totalFiles |-> Len(files)]
    IN  [k \in DOMAIN existing \cup {"pullHistory"} |->
            CASE k = "files" -> files
              [] k = "stats" -> [existing.stats EXCEPT !.totalFiles = Len(files)]
              [] k = "pullHistory" -> <<entry>>
              [] OTHER -> existing[k]]

\* mergeMapping(existing, newFiles), at time now
mergeMapping(existing, newFiles, now) ==
    LET added == NetNew(existing, newFiles)
        files == existing.files \o added
        entry == [timestamp |-> now,
                  filesAdded |-> Len(added),
                  totalFiles |-> Len(files)]
    IN  [k \in DOMAIN existing \cup {"pullHistory"} |->
            CASE k = "files" -> files
              [] k = "stats" -> [existing.stats EXCEPT !.totalFiles = Len(files)]
              [] k = "pullHistory" -> Append(HistoryOf(existing), entry)
              [] OTHER -> existing[k]]

-----------------------------------------------------------------------------
(* pull: Steps 5, 9 and 10 and the save *)

\* the relative paths a user can select, and the rule lists a user can enter
PathPool == {<<"a">>, <<"b">>, <<"A", "b">>}
RulePool ==
    {<<>>,
     <<[original |-> <<"a">>, replacement |-> <<"b">>]>>,
     <<[original |-> <<"a">>, replacement |-> <<"b">>],
       [original |-> <<"b">>, replacement |-> <<".">>]>>}

\* selectFiles: a non-empty list of distinct files
Selections ==
    {sel \in UNION {[1..n -> PathPool] : n \in 1..MaxSelected} :
        \A i, j \in 1..Len(sel) : i # j => sel[i] # sel[j]}

\* Step 9: the regex replace with a replacement string, no case adjustment
RECURSIVE pullPathLoop(_, _, _)
pullPathLoop(rules, anonymized, i) ==
    IF i > Len(rules) THEN anonymized
    ELSE pullPathLoop(rules,
             replace(anonymized, RegExp(escapeRegex(rules[i].original)),
                     "pull", rules[i].replacement),
             i + 1)

newFilesOf(selectedFiles, rules) ==
    [i \in 1..Len(selectedFiles) |->
        [original |-> selectedFiles[i],
         cloaked |-> pullPathLoop(rules, selectedFiles[i], 1)]]

InitMapping ==
    /\ AnonIdle
    /\ CryptoIdle
    /\ RestIdle
    /\ mapFile = NoFile
    /\ clock = 0
    /\ lastPull = [kind |-> "none"]
    /\ mergeCount = 0

\* pull with no existing mapping at the destination, or in "fresh" mode:
\* createMapping, then saveMapping
PullCreate(selectedFiles, rules) ==
    /\ clock < MaxPulls
    /\ LET newFiles == newFilesOf(selectedFiles, rules)
           mapping == createMapping([sourceDir |-> "/src", destDir |-> "/dest",
                                     replacements |-> rules, files |-> newFiles,
                                     timestamp |-> clock + 1])
       IN  /\ mapFile' = JsonRecord(mapping)
           /\ lastPull' = [kind |-> "create", newFiles |-> newFiles,
                           rules |-> rules, mapping |-> mapping]
    /\ mergeCount' = 0
    /\ clock' = clock + 1
    /\ UNCHANGED <<anonVars, cryptoVars, restVars>>

\* pull in "quick" or "extend" mode on an existing mapping: loadRawMapping,
\* mergeMapping, then saveMapping. The rules entered in this pull are used
\* for the copy and for newFiles; mergeMapping is not given them.
PullMerge(selectedFiles, rules) ==
    /\ clock < MaxPulls
    /\ hasMapping
    /\ LET existingMapping == mapFile
           newFiles == newFilesOf(selectedFiles, rules)
           mapping == mergeMapping(existingMapping, newFiles, clock + 1)
       IN  /\ mapFile' = JsonRecord(mapping)
           /\ lastPull' = [kind |-> "merge", existing |-> existingMapping,
                           newFiles |-> newFiles, mapping |-> mapping]
    /\ mergeCount' = mergeCount + 1
    /\ clock' = clock + 1
    /\ UNCHANGED <<anonVars, cryptoVars, restVars>>

NextMapping ==
    \E selectedFiles \in Selections, rules \in RulePool :
        \/ PullCreate(selectedFiles, rules)
        \/ PullMerge(selectedFiles, rules)

SpecMapping == InitMapping /\ [][NextMapping]_vars

-----------------------------------------------------------------------------
(* C5: mergeMapping adds only the net-new files *)

\* C5: the merged files are existing.files in their order followed by
\* exactly the entries of newFiles whose original is not in existing.files,
\* and merging the same list again adds no file.
C5_MergeNetNew ==
    lastPull.kind = "merge" =>
        LET old == lastPull.existing.files
            new == lastPull.mapping.files
            originals == {Field(old[i], "original") : i \in 1..Len(old)}
            fresh == SelectSeq(lastPull.newFiles,
                               LAMBDA f : f.original \notin originals)
        IN  /\ SubSeq(new, 1, Len(old)) = old
            /\ SubSeq(new, Len(old) + 1, Len(new)) = fresh
            /\ mergeMapping(lastPull.mapping, lastPull.newFiles,
                            clock + 1).files = new

\* a merge whose list held a file already recorded and a file not yet recorded
C5_Witness ==
    /\ lastPull.kind = "merge"
    /\ \E i, j \in 1..Len(lastPull.newFiles) :
           /\ \E k \in 1..Len(lastPull.existing.files) :
                  Field(lastPull.existing.files[k], "original")
                      = lastPull.newFiles[i].original
           /\ \A k \in 1..Len(lastPull.existing.files) :
                  Field(lastPull.existing.files[k], "original")
                      # lastPull.newFiles[j].original
    /\ Len(lastPull.mapping.files) = Len(lastPull.existing.files) + 1

-----------------------------------------------------------------------------
(* C6: the stats of a record count its files and its rules *)

StatsAgree(mapping) ==
    /\ mapping.stats.totalFiles = Len(mapping.files)
    /\ mapping.stats.replacementsCount = Len(mapping.replacements)

\* C6: in the record createMapping or mergeMapping returned, and in the
\* record on disk, stats.totalFiles = files.length and
\* stats.replacementsCount = replacements.length.
C6_StatsInvariant ==
    /\ lastPull.kind # "none" => StatsAgree(lastPull.mapping)
    /\ hasMapping => StatsAgree(mapFile)

\* a record with rules that has grown by a merge
C6_Witness ==
    /\ lastPull.kind = "merge"
    /\ hasMapping
    /\ Len(mapFile.replacements) > 0
    /\ Len(mapFile.files) > Len(lastPull.existing.files)
    /\ Len(mapFile.files) # Len(mapFile.replacements)

-----------------------------------------------------------------------------
(* C7: every merge appends one pullHistory entry *)

\* C7: a merge appends exactly one entry to pullHistory, leaves the earlier
\* entries as they were, records in it the number of files the merge added
\* and the new files.length; after k merges on a fresh record the history
\* has k entries.
C7_PullHistory ==
    /\ lastPull.kind = "merge" =>
           LET old == HistoryOf(lastPull.existing)
               new == HistoryOf(lastPull.mapping)
           IN  /\ Len(new) = Len(old) + 1
               /\ SubSeq(new, 1, Len(old)) = old
               /\ new[Len(new)].filesAdded
                      = Len(lastPull.mapping.files)
                            - Len(lastPull.existing.files)
               /\ new[Len(new)].totalFiles = Len(lastPull.mapping.files)
    /\ hasMapping => Len(HistoryOf(mapFile)) = mergeCount

\* a second merge on a record, which added one file of two
C7_Witness ==
    /\ lastPull.kind = "merge"
    /\ mergeCount = 2
    /\ Len(lastPull.newFiles) = 2
    /\ Len(HistoryOf(mapFile)) = 2
    /\ mapFile.pullHistory[2].filesAdded = 1

-----------------------------------------------------------------------------
(* C11: what createMapping encrypts *)

\* C11: the record createMapping returns has encrypted = true; its
\* source.path, destination.path, every replacement's original and every
\* file's original are not the plaintext given; every replacement's
\* replacement and every file's cloaked path are as the caller gave them.
C11_CreateEncrypts ==
    lastPull.kind = "create" =>
        LET m == lastPull.mapping
        IN  /\ "encrypted" \in DOMAIN m
            /\ m.source.path # "/src"
            /\ m.destination.path # "/dest"
            /\ \A i \in 1..Len(m.replacements) :
                   /\ m.replacements[i].original # lastPull.rules[i].original
                   /\ m.replacements[i].replacement
                          = lastPull.rules[i].replacement
            /\ \A i \in 1..Len(m.files) :
                   /\ m.files[i].original # lastPull.newFiles[i].original
                   /\ m.files[i].cloaked = lastPull.newFiles[i].cloaked

-----------------------------------------------------------------------------
(* The crypto provider: core/crypto.js *)

\* the failure sentinel of decrypt, as a string no plaintext can equal
Null == <<"null">>

Secrets == {"s1", "s2"}
PlainChars == {"x", "y"}
Plaintexts == UNION {[1..k -> PlainChars] : k \in 0..MaxPlainLen}

\* the length of the nonce: randomBytes(16)
IvLength == 16
\* the length of the authentication tag of aes-256-gcm
TagLength == 16
\* the tag lengths setAuthTag accepts
ValidTagLengths == {4, 8, 12, 13, 14, 15, 16}

\* the values randomBytes(16) can return in the model
Nonces == {[i \in 1..IvLength |-> n] : n \in 0..(NonceCount - 1)}

\* Buffer.toString('hex') and Buffer.from(str, 'hex')
HexDigits == <<"0", "1", "2", "3", "4", "5", "6", "7",
               "8", "9", "a", "b", "c", "d", "e", "f">>

RECURSIVE toHex(_)
toHex(bytes) ==
    IF bytes = <<>> THEN <<>>
    ELSE <<HexDigits[(Head(bytes) \div 16) + 1],
           HexDigits[(Head(bytes) % 16) + 1]>> \o toHex(Tail(bytes))

IsHexDigit(c) == \E i \in 1..16 : HexDigits[i] = c
HexValue(c) == (CHOOSE i \in 1..16 : HexDigits[i] = c) - 1

\* decoding stops at the first pair that is not two hex digits
RECURSIVE fromHex(_)
fromHex(str) ==
    IF Len(str) < 2 \/ ~IsHexDigit(str[1]) \/ ~IsHexDigit(str[2]) THEN <<>>
    ELSE <<16 * HexValue(str[1]) + HexValue(str[2])>>
             \o fromHex(SubSeq(str, 3, Len(str)))

\* the UTF-8 bytes of a text, and the text of bytes
CharCode(c) == CASE c = "x" -> 120 [] c = "y" -> 121 [] OTHER -> 63
CodeChar(b) == CASE b = 120 -> "x" [] b = 121 -> "y" [] OTHER -> "?"
utf8Encode(text) == [i \in 1..Len(text) |-> CharCode(text[i])]
utf8Decode(bytes) == [i \in 1..Len(bytes) |-> CodeChar(bytes[i])]

\* String.prototype.split(sep)
RECURSIVE split(_, _)
split(str, sep) ==
    IF \A i \in 1..Len(str) : str[i] # sep THEN <<str>>
    ELSE LET i == CHOOSE j \in 1..Len(str) :
                      str[j] = sep /\ \A k \in 1..(j - 1) : str[k] # sep
         IN  <<SubSeq(str, 1, i - 1)>> \o split(SubSeq(str, i + 1, Len(str)), sep)

\* scryptSync(secret, 'repo-cloak-salt', 32): the key is a function of the
\* secret, and different secrets give different keys
scryptSync(secret) == [secret |-> secret, salt |-> "repo-cloak-salt"]
KeyNumber(key) == CASE key.secret = "s1" -> 1 [] key.secret = "s2" -> 2

\* aes-256-gcm by its contract: a keystream cipher (counter mode) and a tag
\* that binds the key, the nonce and the ciphertext. Byte addition stands for
\* the XOR with the keystream.
Keystream(key, iv, i) ==
    (97 * KeyNumber(key) + 31 * (IF iv = <<>> THEN 0 ELSE iv[1]) + 7 * i) % 256

cipherUpdate(key, iv, bytes) ==
    [i \in 1..Len(bytes) |-> (bytes[i] + Keystream(key, iv, i)) % 256]

decipherUpdate(key, iv, bytes) ==
    [i \in 1..Len(bytes) |-> (bytes[i] + 256 - Keystream(key, iv, i)) % 256]

getAuthTag(key, iv, ciphertext) ==
    [i \in 1..TagLength |->
        CASE i = 1 -> KeyNumber(key)
          [] i = 2 -> Len(iv) % 256
          [] i = 3 -> IF iv = <<>> THEN 0 ELSE iv[1]
          [] i = 4 -> IF iv = <<>> THEN 0 ELSE iv[Len(iv)]
          [] i = 5 -> Len(ciphertext) % 256
          [] OTHER -> IF i - 5 <= Len(ciphertext) THEN ciphertext[i - 5] ELSE 0]

\* a plausible slip: the nonce is a constant, not the bytes drawn
encrypt_fixedIv(text, secret, iv) ==
    LET key == scryptSync(secret)
        fixed == [i \in 1..IvLength |-> 0]
        encrypted == cipherUpdate(key, fixed, utf8Encode(text))
        authTag == getAuthTag(key, fixed, encrypted)
    IN  toHex(fixed) \o <<":">> \o toHex(authTag) \o <<":">> \o toHex(encrypted)

\* encrypt(text, secret), iv being the bytes randomBytes(16) returned
encrypt(text, secret, iv) ==
    LET key == scryptSync(secret)
        encrypted == cipherUpdate(key, iv, utf8Encode(text))
        authTag == getAuthTag(key, iv, encrypted)
    IN  toHex(iv) \o <<":">> \o toHex(authTag) \o <<":">> \o toHex(encrypted)

\* the body of decrypt's try block: what it returns, or that it threw
decryptTry(encryptedData, secret) ==
    LET parts == split(encryptedData, ":")
    IN  IF \/ Len(parts) < 3
           \/ parts[1] = <<>> \/ parts[2] = <<>> \/ parts[3] = <<>>
        THEN [kind |-> "throw", error |-> "Invalid encrypted data format"]
        ELSE
        LET key == scryptSync(secret)
            iv == fromHex(parts[1])
            authTag == fromHex(parts[2])
            ciphertext == fromHex(parts[3])
        IN  IF Len(iv) = 0
            THEN [kind |-> "throw", error |-> "Invalid initialization vector"]
            ELSE IF Len(authTag) \notin ValidTagLengths
            THEN [kind |-> "throw", error |-> "Invalid authentication tag length"]
            ELSE IF authTag # SubSeq(getAuthTag(key, iv, ciphertext),
                                     1, Len(authTag))
            THEN [kind |-> "throw", error |-> "Unsupported state or unable to authenticate data"]
            ELSE [kind |-> "return",
                  value |-> utf8Decode(decipherUpdate(key, iv, ciphertext))]

\* decrypt(encryptedData, secret): the catch turns every error into null
decrypt(encryptedData, secret) ==
    LET r == decryptTry(encryptedData, secret)
    IN  IF r.kind = "throw" THEN [kind |-> "return", value |-> Null] ELSE r

-----------------------------------------------------------------------------
(* The strings decrypt is given *)

NextDigit(c) == IF IsHexDigit(c) THEN HexDigits[((HexValue(c) + 1) % 16) + 1]
                ELSE "0"

\* the position of the first character of part n of a colon-delimited string
PartStart(str, n) ==
    IF n = 1 THEN 1
    ELSE 1 + (CHOOSE j \in 1..Len(str) :
                  /\ str[j] = ":"
                  /\ Cardinality({k \in 1..j : str[k] = ":"}) = n - 1)

Tamperings == {"none", "extraPart", "dropPart", "iv", "tag", "ciphertext"}

\* a stored ciphertext as it may come back: untouched, with a fourth part
\* appended, with its last part cut off, or with one digit of its nonce, tag
\* or ciphertext changed
Tamper(str, how) ==
    CASE how = "none" -> str
      [] how = "extraPart" -> str \o <<":", "0", "0">>
      [] how = "dropPart" -> SubSeq(str, 1, PartStart(str, 3) - 2)
      [] how = "iv" -> [str EXCEPT ![1] = NextDigit(str[1])]
      [] how = "tag" -> [str EXCEPT ![PartStart(str, 2)] =
                             NextDigit(str[PartStart(str, 2)])]
      [] how = "ciphertext" ->
             IF PartStart(str, 3) > Len(str) THEN str
             ELSE [str EXCEPT ![PartStart(str, 3)] =
                       NextDigit(str[PartStart(str, 3)])]

\* strings that never were ciphertexts
Malformed == {<<>>, <<":">>, <<":", ":">>, <<"z", "z">>,
              <<"0", "0", ":", "0", "0">>,
              <<"0", "0", ":", "0", "0", ":", "0", "0">>,
              <<"z", "z", ":", "0", "0", ":", "0", "0">>}

InitCrypto ==
    /\ AnonIdle
    /\ MapIdle
    /\ RestIdle
    /\ encLog = <<>>
    /\ decCall = [kind |-> "none"]

\* encrypt(text, secret): const iv = randomBytes(16). randomBytes is a
\* cryptographic generator: it returns any 16 bytes, and a value it returned
\* before only with probability 2^-128, which is left out
Encrypt(text, secret) ==
    /\ decCall.kind = "none"
    /\ Len(encLog) < MaxEncrypts
    /\ \E iv \in Nonces \ {encLog[k].iv : k \in 1..Len(encLog)} :
           encLog' = Append(encLog, [text |-> text, secret |-> secret,
                                     iv |-> iv,
                                     out |-> encrypt(text, secret, iv)])
    /\ UNCHANGED decCall
    /\ UNCHANGED <<anonVars, mapVars, restVars>>

\* decrypt of a stored ciphertext, as stored or tampered with. decrypt reads
\* and writes nothing but its arguments and its result, so a run ends with
\* the one decrypt call it observes
DecryptStored(n, how, secret) ==
    /\ decCall.kind = "none"
    /\ n \in 1..Len(encLog)
    /\ LET input == Tamper(encLog[n].out, how)
       IN  decCall' = [kind |-> "stored", from |-> n, how |-> how,
                       input |-> input, secret |-> secret,
                       outcome |-> decrypt(input, secret)]
    /\ UNCHANGED encLog
    /\ UNCHANGED <<anonVars, mapVars, restVars>>

\* decrypt of a string that never was a ciphertext
DecryptMalformed(input, secret) ==
    /\ decCall.kind = "none"
    /\ decCall' = [kind |-> "malformed", input |-> input, secret |-> secret,
                   outcome |-> decrypt(input, secret)]
    /\ UNCHANGED encLog
    /\ UNCHANGED <<anonVars, mapVars, restVars>>

NextCrypto ==
    \/ \E text \in Plaintexts, secret \in Secrets : Encrypt(text, secret)
    \/ \E n \in 1..MaxEncrypts, how \in Tamperings, secret \in Secrets :
           DecryptStored(n, how, secret)
    \/ \E input \in Malformed, secret \in Secrets :
           DecryptMalformed(input, secret)

SpecCrypto == InitCrypto /\ [][NextCrypto]_vars

-----------------------------------------------------------------------------
(* C8: encryption round trip *)

\* C8 as stated: for any plaintext P, the empty string included, and any
\* secret S, decrypt(encrypt(P, S), S) returns P.
C8_RoundTrip ==
    (/\ decCall.kind = "stored"
     /\ decCall.how = "none"
     /\ decCall.secret = encLog[decCall.from].secret)
    => decCall.outcome = [kind |-> "return",
                          value |-> encLog[decCall.from].text]

-----------------------------------------------------------------------------
(* C9: decrypt fails by value *)

\* C9 as stated: decrypt never throws; it returns null or the plaintext that
\* was encrypted under the same secret; with a different secret, a tag that
\* does not verify, or input that is not three colon-delimited parts it
\* returns null.
C9_FailureByValue ==
    decCall.kind # "none" =>
        /\ decCall.outcome.kind = "return"
        /\ \/ decCall.outcome.value = Null
           \/ \E k \in 1..Len(encLog) :
                  /\ encLog[k].secret = decCall.secret
                  /\ encLog[k].text = decCall.outcome.value
        /\ (decCall.kind = "stored"
              /\ decCall.secret # encLog[decCall.from].secret)
           => decCall.outcome.value = Null
        /\ (decCall.kind = "stored"
              /\ decCall.how \in {"iv", "tag", "ciphertext"})
           => decCall.outcome.value = Null
        /\ Len(split(decCall.input, ":")) # 3
           => decCall.outcome.value = Null

-----------------------------------------------------------------------------
(* C10: nonce freshness *)

\* C10: two calls to encrypt with the same plaintext and the same secret
\* return different ciphertext strings.
C10_NonceFreshness ==
    \A i, j \in 1..Len(encLog) :
        (/\ i # j
         /\ encLog[i].text = encLog[j].text
         /\ encLog[i].secret = encLog[j].secret)
        => encLog[i].out # encLog[j].out

\* encrypt was called twice with the same plaintext and the same secret
C10_Witness ==
    /\ Len(encLog) >= 2
    /\ encLog[1].text = encLog[2].text
    /\ encLog[1].secret = encLog[2].secret
    /\ encLog[1].text # <<>>

-----------------------------------------------------------------------------
(* The user secret: getOrCreateSecret and hasSecret of core/crypto.js *)

NoSecret == "none"

\* the processes that may run the tool at the same time
Procs == {"p1", "p2"}

\* hasSecret(): existsSync(SECRET_FILE)
hasSecret == secretFile # NoSecret

InitSecret ==
    /\ AnonIdle
    /\ MapIdle
    /\ CryptoIdle
    /\ SelectIdle
    /\ ScanIdle
    /\ CopyIdle
    /\ BatchIdle
    /\ StoreIdle
    /\ PushIdle
    /\ secretFile = NoSecret
    /\ secretPc = [p \in Procs |-> "idle"]
    /\ returned = <<>>

\* getOrCreateSecret when existsSync(SECRET_FILE) is true: the file is read
\* and its content returned
ReadSecret(p) ==
    /\ secretPc[p] = "idle"
    /\ hasSecret
    /\ Len(returned) < MaxSecretCalls
    /\ returned' = Append(returned, [proc |-> p, value |-> secretFile])
    /\ UNCHANGED <<secretFile, secretPc>>
    /\ UNCHANGED <<anonVars, mapVars, cryptoVars, pushVars, storeVars, batchVars, copyVars, scanVars, selectVars>>

\* getOrCreateSecret when existsSync(SECRET_FILE) is false: the process goes
\* on to generate a secret
FindNoSecret(p) ==
    /\ secretPc[p] = "idle"
    /\ ~hasSecret
    /\ Len(returned) < MaxSecretCalls
    /\ secretPc' = [secretPc EXCEPT ![p] = "generate"]
    /\ UNCHANGED <<secretFile, returned>>
    /\ UNCHANGED <<anonVars, mapVars, cryptoVars, pushVars, storeVars, batchVars, copyVars, scanVars, selectVars>>

\* a write that fails when the file is there already (flag 'wx'): the process
\* still returns what it generated
WriteSecret_exclusive(p, secret) ==
    /\ secretPc[p] = "generate"
    /\ secretFile' = IF hasSecret THEN secretFile ELSE secret
    /\ returned' = Append(returned, [proc |-> p, value |-> secret])
    /\ secretPc' = [secretPc EXCEPT ![p] = "idle"]
    /\ UNCHANGED <<anonVars, mapVars, cryptoVars, pushVars, storeVars, batchVars, copyVars, scanVars, selectVars>>

\* randomBytes(32).toString('hex'), writeFileSync(SECRET_FILE, secret) and
\* the return
WriteSecret(p, secret) ==
    /\ secretPc[p] = "generate"
    /\ secretFile' = secret
    /\ returned' = Append(returned, [proc |-> p, value |-> secret])
    /\ secretPc' = [secretPc EXCEPT ![p] = "idle"]
    /\ UNCHANGED <<anonVars, mapVars, cryptoVars, pushVars, storeVars, batchVars, copyVars, scanVars, selectVars>>

\* the user deletes the secret file; what was returned before no longer binds
DeleteSecret ==
    /\ hasSecret
    /\ secretFile' = NoSecret
    /\ returned' = <<>>
    /\ UNCHANGED secretPc
    /\ UNCHANGED <<anonVars, mapVars, cryptoVars, pushVars, storeVars, batchVars, copyVars, scanVars, selectVars>>

NextSecret ==
    \/ \E p \in Procs : ReadSecret(p)
    \/ \E p \in Procs : FindNoSecret(p)
    \/ \E p \in Procs, secret \in Secrets : WriteSecret(p, secret)
    \/ DeleteSecret

SpecSecret == InitSecret /\ [][NextSecret]_vars

-----------------------------------------------------------------------------
(* C20: stability of the user secret *)

\* C20: once getOrCreateSecret has returned a value, every later call, by any
\* process, returns the same value as long as the file is not deleted, and
\* hasSecret() is true from then on.
C20_SecretStable ==
    /\ \A i, j \in 1..Len(returned) : returned[i].value = returned[j].value
    /\ returned # <<>> => hasSecret

-----------------------------------------------------------------------------
(* Encrypted mapping records and their decryption *)

\* encryptReplacements(replacements, secret), ivs being the nonces drawn
encryptReplacements(rules, secret, ivs) ==
    [i \in 1..Len(rules) |->
        [original |-> encrypt(rules[i].original, secret, ivs[i]),
         replacement |-> rules[i].replacement,
         encrypted |-> TRUE]]

\* the nonce drawn for the n-th field of a record: all different
RecordNonce(n) == [i \in 1..IvLength |-> 16 + n]

\* the record of format 1.1.0 a pull with encryption leaves in the cloaked
\* directory: source.path, destination.path, the originals of the
\* replacements and of the files are ciphertext
EncryptedRecord(plain, secret) ==
    [version |-> "1.1.0",
     tool |-> "repo-cloak",
     encrypted |-> TRUE,
     timestamp |-> 1,
     source |-> [path |-> encrypt(plain.sourceDir, secret, RecordNonce(1)),
                 platform |-> "linux"],
     destination |-> [path |-> encrypt(plain.destDir, secret, RecordNonce(2))],
     replacements |-> encryptReplacements(plain.replacements, secret,
                          [i \in 1..Len(plain.replacements) |->
                              RecordNonce(2 + i)]),
     files |-> [i \in 1..Len(plain.files) |->
         [original |-> encrypt(plain.files[i].original, secret,
                               RecordNonce(8 + i)),
          cloaked |-> plain.files[i].cloaked]],
     stats |-> [totalFiles |-> Len(plain.files),
                replacementsCount |-> Len(plain.replacements)]]

\* a plausible slip: a field that fails to decrypt is left null and the
\* record is returned all the same
decryptMapping_perEntry(record, secret) ==
    LET d(x) == decrypt(x, secret).value
    IN  [kind |-> "return",
         value |-> [record EXCEPT
             !.source.path = d(record.source.path),
             !.destination.path = d(record.destination.path),
             !.replacements = [i \in 1..Len(record.replacements) |->
                 [original |-> d(record.replacements[i].original),
                  replacement |-> record.replacements[i].replacement]],
             !.files = [i \in 1..Len(record.files) |->
                 [original |-> d(record.files[i].original),
                  cloaked |-> record.files[i].cloaked]]]]

\* decryptMapping(record, secret): every field decrypts, or the call throws
decryptMapping(record, secret) ==
    LET d(x) == decrypt(x, secret).value
        fields == {record.source.path, record.destination.path}
                    \cup {record.replacements[i].original :
                             i \in 1..Len(record.replacements)}
                    \cup {record.files[i].original :
                             i \in 1..Len(record.files)}
    IN  IF \E x \in fields : d(x) = Null
        THEN [kind |-> "throw", error |-> "Decryption failed"]
        ELSE [kind |-> "return",
              value |-> [record EXCEPT
                  !.source.path = d(record.source.path),
                  !.destination.path = d(record.destination.path),
                  !.replacements = [i \in 1..Len(record.replacements) |->
                      [original |-> d(record.replacements[i].original),
                       replacement |-> record.replacements[i].replacement]],
                  !.files = [i \in 1..Len(record.files) |->
                      [original |-> d(record.files[i].original),
                       cloaked |-> record.files[i].cloaked]]]]

-----------------------------------------------------------------------------
(* push: Step 4 (encryption) and Step 9 (the rules to reverse) *)

\* what was cloaked: the paths and the rules of the pull
PushRulePool ==
    {<<>>,
     <<[original |-> <<"x">>, replacement |-> <<"a">>]>>,
     <<[original |-> <<"x">>, replacement |-> <<"a">>],
       [original |-> <<"y">>, replacement |-> <<"b">>]>>}

PlainRecords ==
    {[sourceDir |-> <<"x", "y">>, destDir |-> <<"y">>, replacements |-> rules,
      files |-> <<[original |-> <<"x">>, cloaked |-> <<"a">>]>>] :
        rules \in PushRulePool}

\* the stored record as push finds it: intact, or with one field changed
Damages == {"none", "source", "destination", "replacement", "file"}

Damage(record, where) ==
    CASE where = "none" -> record
      [] where = "source" ->
             [record EXCEPT !.source.path = Tamper(@, "tag")]
      [] where = "destination" ->
             [record EXCEPT !.destination.path = Tamper(@, "tag")]
      [] where = "replacement" ->
             IF record.replacements = <<>> THEN record
             ELSE [record EXCEPT
                      !.replacements[Len(record.replacements)].original =
                          Tamper(@, "tag")]
      [] where = "file" ->
             [record EXCEPT !.files[1].original = Tamper(@, "tag")]

\* a record written without encryption: it has no encrypted property
LegacyRecord(plain) ==
    [version |-> "1.0.0",
     tool |-> "repo-cloak",
     timestamp |-> 1,
     source |-> [path |-> plain.sourceDir, platform |-> "linux"],
     destination |-> [path |-> plain.destDir],
     replacements |-> plain.replacements,
     files |-> plain.files,
     stats |-> [totalFiles |-> Len(plain.files),
                replacementsCount |-> Len(plain.replacements)]]

\* rawMapping.encrypted, as a condition
IsEncrypted(record) == "encrypted" \in DOMAIN record /\ record.encrypted = TRUE

\* String.prototype.trim
RECURSIVE trim(_)
trim(str) ==
    IF str = <<>> THEN str
    ELSE IF Head(str) = " " THEN trim(Tail(str))
    ELSE IF str[Len(str)] = " " THEN trim(SubSeq(str, 1, Len(str) - 1))
    ELSE str

\* what a user may type at a manual-recovery prompt
Answers == {<<>>, <<" ">>, <<"x">>, <<" ", "y", " ">>}

\* a value in a condition: null, undefined and '' are false
Truthy(v) == v \notin {Null, Undefined, <<>>}

\* the mapping the manual-recovery path builds
ManualMapping(raw, manual) ==
    [raw EXCEPT !.replacements = manual,
                !.source = [path |-> Null],
                !.destination = [path |-> Null],
                !.files = [i \in 1..Len(raw.files) |->
                    [original |-> raw.files[i].cloaked,
                     cloaked |-> raw.files[i].cloaked]]]

InitPush ==
    /\ AnonIdle
    /\ MapIdle
    /\ CryptoIdle
    /\ SelectIdle
    /\ ScanIdle
    /\ CopyIdle
    /\ BatchIdle
    /\ StoreIdle
    /\ secretFile \in Secrets \cup {NoSecret}
    /\ secretPc = [p \in Procs |-> "idle"]
    /\ returned = <<>>
    /\ pushPc = "start"
    /\ plainRecord \in PlainRecords
    /\ \E secret \in Secrets, where \in Damages :
           rawMapping \in {Damage(EncryptedRecord(plainRecord, secret), where),
                           LegacyRecord(plainRecord)}
    /\ decOutcome = [kind |-> "none"]
    /\ pushMapping = <<>>
    /\ answers = <<>>
    /\ manualReplacements = <<>>
    /\ validReplacements = <<>>

\* Step 4 up to the first prompt: decryptMapping when the record is
\* encrypted and a secret exists; the manual-recovery path when that throws
\* or no secret exists
PushHandleEncryption ==
    /\ pushPc = "start"
    /\ LET outcome == IF IsEncrypted(rawMapping) /\ hasSecret
                      THEN decryptMapping(rawMapping, secretFile)
                      ELSE [kind |-> "none"]
           decryptionFailed == /\ IsEncrypted(rawMapping)
                               /\ (~hasSecret \/ outcome.kind = "throw")
       IN  /\ decOutcome' = outcome
           /\ IF ~decryptionFailed
              THEN /\ pushMapping' = IF outcome.kind = "return"
                                     THEN outcome.value ELSE rawMapping
                   /\ pushPc' = "ready"
              ELSE IF rawMapping.replacements = <<>>
              THEN /\ pushMapping' = ManualMapping(rawMapping, <<>>)
                   /\ pushPc' = "ready"
              ELSE /\ pushMapping' = rawMapping
                   /\ pushPc' = "manual"
    /\ UNCHANGED <<rawMapping, plainRecord, answers, manualReplacements,
                   validReplacements>>
    /\ UNCHANGED <<anonVars, mapVars, cryptoVars, secretVars, storeVars, batchVars, copyVars, scanVars, selectVars>>

\* the user answers the prompt for the next replacement; after the last
\* prompt the manual mapping is built
PushManualAnswer(original) ==
    /\ pushPc = "manual"
    /\ LET r == rawMapping.replacements[Len(answers) + 1]
           manual == IF trim(original) # <<>>
                     THEN Append(manualReplacements,
                              [original |-> trim(original),
                               replacement |-> r.replacement])
                     ELSE manualReplacements
       IN  /\ answers' = Append(answers, original)
           /\ manualReplacements' = manual
           /\ IF Len(answers) + 1 = Len(rawMapping.replacements)
              THEN /\ pushMapping' = ManualMapping(rawMapping, manual)
                   /\ pushPc' = "ready"
              ELSE UNCHANGED <<pushMapping, pushPc>>
    /\ UNCHANGED <<rawMapping, plainRecord, decOutcome, validReplacements>>
    /\ UNCHANGED <<anonVars, mapVars, cryptoVars, secretVars, storeVars, batchVars, copyVars, scanVars, selectVars>>

\* Step 6: the user does not confirm
PushCancel ==
    /\ pushPc = "ready"
    /\ pushPc' = "cancelled"
    /\ UNCHANGED <<rawMapping, plainRecord, decOutcome, pushMapping, answers,
                   manualReplacements, validReplacements>>
    /\ UNCHANGED <<anonVars, mapVars, cryptoVars, secretVars, storeVars, batchVars, copyVars, scanVars, selectVars>>

\* Step 9: the rules whose original is usable go to createDeanonymizer
PushRestore ==
    /\ pushPc = "ready"
    /\ validReplacements' =
           SelectSeq(pushMapping.replacements, LAMBDA r : Truthy(r.original))
    /\ pushPc' = "done"
    /\ UNCHANGED <<rawMapping, plainRecord, decOutcome, pushMapping, answers,
                   manualReplacements>>
    /\ UNCHANGED <<anonVars, mapVars, cryptoVars, secretVars, storeVars, batchVars, copyVars, scanVars, selectVars>>

NextPush ==
    \/ PushHandleEncryption
    \/ \E original \in Answers : PushManualAnswer(original)
    \/ PushCancel
    \/ PushRestore

SpecPush == InitPush /\ [][NextPush]_vars

-----------------------------------------------------------------------------
(* C12: whole-record decryption is all-or-nothing *)

\* the ciphertext and plaintext values of the stored record's protected fields
ProtectedCiphertexts ==
    {rawMapping.source.path, rawMapping.destination.path}
        \cup {rawMapping.replacements[i].original :
                 i \in 1..Len(rawMapping.replacements)}
        \cup {rawMapping.files[i].original : i \in 1..Len(rawMapping.files)}

\* the record holds exactly the plaintext that was encrypted
FullyDecrypted(record) ==
    /\ record.source.path = plainRecord.sourceDir
    /\ record.destination.path = plainRecord.destDir
    /\ Len(record.replacements) = Len(plainRecord.replacements)
    /\ \A i \in 1..Len(record.replacements) :
           /\ record.replacements[i].original
                  = plainRecord.replacements[i].original
           /\ record.replacements[i].replacement
                  = plainRecord.replacements[i].replacement
    /\ Len(record.files) = Len(plainRecord.files)
    /\ \A i \in 1..Len(record.files) :
           record.files[i].original = plainRecord.files[i].original

\* push took the manual-recovery path
ManualRecovery ==
    /\ IsEncrypted(rawMapping)
    /\ pushPc # "start"
    /\ (decOutcome.kind = "throw" \/ ~hasSecret)

\* C12: decryptMapping returns a record with every protected field
\* decrypted, or throws and yields no record; when it throws, or no secret
\* exists, push builds its mapping from the user's answers only: the rules
\* it reverses are originals the user typed, never a ciphertext and never
\* part of a decrypted record.
C12_AllOrNothing ==
    /\ decOutcome.kind \in {"none", "return", "throw"}
    /\ decOutcome.kind = "return" =>
           /\ FullyDecrypted(decOutcome.value)
           /\ pushMapping = decOutcome.value
    /\ decOutcome.kind = "throw" => "value" \notin DOMAIN decOutcome
    /\ (IsEncrypted(rawMapping) /\ ~hasSecret) => decOutcome.kind = "none"
    /\ (ManualRecovery /\ pushPc \in {"ready", "cancelled", "done"}) =>
           /\ pushMapping.replacements = manualReplacements
           /\ pushMapping.source.path = Null
           /\ pushMapping.destination.path = Null
           /\ \A i \in 1..Len(pushMapping.files) :
                  pushMapping.files[i].original = rawMapping.files[i].cloaked
    /\ (ManualRecovery /\ pushPc = "done") =>
           /\ validReplacements = manualReplacements
           /\ \A i \in 1..Len(validReplacements) :
                  /\ validReplacements[i].original \notin ProtectedCiphertexts
                  /\ \E k \in 1..Len(answers) :
                         /\ validReplacements[i].original = trim(answers[k])
                         /\ validReplacements[i].replacement
                                = rawMapping.replacements[k].replacement

\* one field of the record no longer decrypts while the others do; push fell
\* back to the prompts and reverses a rule the user typed
C12_Witness ==
    /\ pushPc = "done"
    /\ decOutcome.kind = "throw"
    /\ \E x \in ProtectedCiphertexts : decrypt(x, secretFile).value # Null
    /\ \E x \in ProtectedCiphertexts : decrypt(x, secretFile).value = Null
    /\ validReplacements # <<>>
    /\ Len(validReplacements) < Len(rawMapping.replacements)

-----------------------------------------------------------------------------
(* The mapping file: saveMapping, loadMapping, hasMapping of core/mapper.js *)

\* JSON.stringify(mapping, null, 2): the text, represented by the value it
\* denotes; a property whose value is undefined is not written
stringify(mapping) == [kind |-> "json", value |-> JsonRecord(mapping)]

\* a plausible slip: the file is only written when there is none yet
saveMapping_keepExisting(file, mapping) ==
    IF file = NoFile THEN [exists |-> TRUE, text |-> stringify(mapping)]
    ELSE file

\* saveMapping(destDir, mapping): the file after the call; writeFileSync
\* replaces whatever the file held
saveMapping(file, mapping) == [exists |-> TRUE, text |-> stringify(mapping)]

\* a plausible slip: a missing file gives null, not an error
loadMapping_nullIfMissing(file) ==
    IF file = NoFile THEN [kind |-> "return", value |-> Null]
    ELSE IF file.text.kind = "json"
    THEN [kind |-> "return", value |-> file.text.value]
    ELSE [kind |-> "throw", error |-> "Failed to read mapping file"]

\* loadMapping(cloakedDir), given what the file holds
loadMapping(file) ==
    IF file = NoFile
    THEN [kind |-> "throw", error |-> "No mapping file found"]
    ELSE IF file.text.kind = "json"
    THEN [kind |-> "return", value |-> file.text.value]
    ELSE [kind |-> "throw", error |-> "Failed to read mapping file"]

\* the file objects of the scanner, and the entries pull builds in Step 9
ScannedFiles == <<[relativePath |-> <<"a">>, absolutePath |-> <<"/", "a">>]>>

\* the records saveMapping is given
SavePool ==
    UNION {{createMapping([sourceDir |-> "/src", destDir |-> "/dest",
                           replacements |-> rules, files |-> files,
                           timestamp |-> 1]) :
               files \in {ScannedFiles, newFilesOf(<<<<"a">>>>, rules),
                          ScannedFiles \o ScannedFiles,
                          newFilesOf(<<<<"a">>, <<"b">>>>, rules)}} :
           rules \in RulePool}
    \cup {mergeMapping(
              JsonRecord(createMapping([sourceDir |-> "/src",
                  destDir |-> "/dest", replacements |-> <<>>,
                  files |-> ScannedFiles, timestamp |-> 1])),
              newFilesOf(<<<<"b">>>>, <<>>), 2)}

\* what another program may leave in the file
ForeignTexts == {[kind |-> "garbage", text |-> ""],
                 [kind |-> "garbage", text |-> "{ \"version\": "],
                 [kind |-> "json", value |-> [version |-> "1.0.0"]]}

InitStore ==
    /\ AnonIdle
    /\ CryptoIdle
    /\ SecretIdle
    /\ PushIdle
    /\ BatchIdle
    /\ CopyIdle
    /\ ScanIdle
    /\ SelectIdle
    /\ mapFile = NoFile
    /\ clock = 0
    /\ lastPull = [kind |-> "none"]
    /\ mergeCount = 0
    /\ lastSaved = [kind |-> "none"]
    /\ loadCall = [kind |-> "none"]
    /\ saveCount = 0

\* saveMapping(destDir, mapping)
SaveMapping(mapping) ==
    /\ saveCount < MaxSaves
    /\ mapFile' = saveMapping(mapFile, mapping)
    /\ lastSaved' = [kind |-> "saved", mapping |-> mapping]
    /\ loadCall' = [kind |-> "none"]
    /\ saveCount' = saveCount + 1
    /\ UNCHANGED <<clock, lastPull, mergeCount>>
    /\ UNCHANGED <<anonVars, cryptoVars, secretVars, pushVars, batchVars, copyVars, scanVars, selectVars>>

\* loadMapping(cloakedDir): nothing is written
LoadMapping ==
    /\ loadCall' = [kind |-> "called", before |-> mapFile,
                    outcome |-> loadMapping(mapFile)]
    /\ UNCHANGED <<mapFile, lastSaved, saveCount>>
    /\ UNCHANGED <<clock, lastPull, mergeCount>>
    /\ UNCHANGED <<anonVars, cryptoVars, secretVars, pushVars, batchVars, copyVars, scanVars, selectVars>>

\* another program writes the file
ForeignWrite(text) ==
    /\ mapFile' = [exists |-> TRUE, text |-> text]
    /\ lastSaved' = [kind |-> "none"]
    /\ loadCall' = [kind |-> "none"]
    /\ UNCHANGED saveCount
    /\ UNCHANGED <<clock, lastPull, mergeCount>>
    /\ UNCHANGED <<anonVars, cryptoVars, secretVars, pushVars, batchVars, copyVars, scanVars, selectVars>>

\* the file is removed
RemoveFile ==
    /\ hasMapping
    /\ mapFile' = NoFile
    /\ lastSaved' = [kind |-> "none"]
    /\ loadCall' = [kind |-> "none"]
    /\ UNCHANGED saveCount
    /\ UNCHANGED <<clock, lastPull, mergeCount>>
    /\ UNCHANGED <<anonVars, cryptoVars, secretVars, pushVars, batchVars, copyVars, scanVars, selectVars>>

NextStore ==
    \/ \E mapping \in SavePool : SaveMapping(mapping)
    \/ LoadMapping
    \/ \E text \in ForeignTexts : ForeignWrite(text)
    \/ RemoveFile

SpecStore == InitStore /\ [][NextStore]_vars

-----------------------------------------------------------------------------
(* C13: the mapping file holds the record of the most recent save *)

-----------------------------------------------------------------------------
(* C14: loadMapping's failures *)

\* C14: loadMapping throws the not-found error when the file is absent and
\* the failed-to-read error when the file is not parseable JSON; in both
\* cases it returns no record and the file is as it was.
C14_LoadFailures ==
    loadCall.kind = "called" =>
        /\ mapFile = loadCall.before
        /\ loadCall.before = NoFile =>
               /\ loadCall.outcome.kind = "throw"
               /\ loadCall.outcome.error = "No mapping file found"
               /\ "value" \notin DOMAIN loadCall.outcome
        /\ (loadCall.before # NoFile
              /\ loadCall.before.text.kind = "garbage") =>
               /\ loadCall.outcome.kind = "throw"
               /\ loadCall.outcome.error = "Failed to read mapping file"
               /\ "value" \notin DOMAIN loadCall.outcome
        /\ loadCall.outcome.kind = "throw" =>
               (loadCall.before = NoFile
                  \/ loadCall.before.text.kind = "garbage")

\* a load of a file that holds a cut-off JSON text
C14_Witness ==
    /\ loadCall.kind = "called"
    /\ loadCall.before # NoFile
    /\ loadCall.before.text.kind = "garbage"
    /\ loadCall.before.text.text # ""
    /\ loadCall.outcome.kind = "throw"

-----------------------------------------------------------------------------
(* decryptReplacements of core/crypto.js *)

\* a plausible slip: the entries that fail are left out
decryptReplacements_dropFailed(rules, secret) ==
    SelectSeq([i \in 1..Len(rules) |->
                  IF ~IsEncrypted(rules[i]) THEN rules[i]
                  ELSE [original |-> decrypt(rules[i].original, secret).value,
                        replacement |-> rules[i].replacement]],
              LAMBDA r : r.original # Null)

\* decryptReplacements(replacements, secret)
decryptReplacements(rules, secret) ==
    [i \in 1..Len(rules) |->
        LET r == rules[i]
        IN  IF ~IsEncrypted(r) THEN r
            ELSE LET original == decrypt(r.original, secret).value
                 IN  IF original = Null
                     THEN [k \in DOMAIN r \cup {"decryptFailed"} |->
                              CASE k = "original" -> Null
                                [] k = "decryptFailed" -> TRUE
                                [] OTHER -> r[k]]
                     ELSE [original |-> original,
                           replacement |-> r.replacement]]

\* the stored entries a batch is made of, each with the rule it came from
\* and the secret that decrypts it ("none": no secret does; "plain": it was
\* never encrypted)
StoredEntries ==
    UNION {
        {[entry |-> encryptReplacements(<<rule>>, secret,
                                        <<RecordNonce(1)>>)[1],
          rule |-> rule, key |-> secret] : secret \in Secrets}
        \cup {[entry |-> [encryptReplacements(<<rule>>, "s1",
                              <<RecordNonce(1)>>)[1]
                          EXCEPT !.original = Tamper(@, "ciphertext")],
               rule |-> rule, key |-> "none"],
              [entry |-> rule, rule |-> rule, key |-> "plain"]} :
        rule \in {[original |-> <<"x">>, replacement |-> <<"a">>],
                  [original |-> <<"y", "x">>, replacement |-> <<"b">>]}}

Batches == UNION {[1..n -> StoredEntries] : n \in 0..MaxBatch}

InitBatch ==
    /\ AnonIdle
    /\ MapIdle
    /\ CryptoIdle
    /\ SelectIdle
    /\ ScanIdle
    /\ CopyIdle
    /\ SecretIdle
    /\ PushIdle
    /\ StoreIdle
    /\ batchCall = [kind |-> "none"]

\* decryptReplacements(existingMapping.replacements, secret): it reads its
\* arguments only, so a run observes one call
DecryptReplacements(batch, secret) ==
    /\ batchCall.kind = "none"
    /\ batchCall' =
           [kind |-> "called", batch |-> batch, secret |-> secret,
            result |-> decryptReplacements(
                           [i \in 1..Len(batch) |-> batch[i].entry], secret)]
    /\ UNCHANGED <<anonVars, mapVars, cryptoVars, secretVars, pushVars,
                   storeVars, copyVars, scanVars, selectVars>>

NextBatch ==
    \E batch \in Batches, secret \in Secrets :
        DecryptReplacements(batch, secret)

SpecBatch == InitBatch /\ [][NextBatch]_vars

-----------------------------------------------------------------------------
(* C15: decryptReplacements degrades per entry *)

\* C15: the result has the length and order of the input; an entry whose
\* original does not decrypt comes back with decryptFailed = true and a null
\* original; every other entry comes back as the {original, replacement}
\* pair that was stored; no entry's replacement is changed.
C15_PerEntry ==
    batchCall.kind = "called" =>
        LET batch == batchCall.batch
            result == batchCall.result
        IN  /\ Len(result) = Len(batch)
            /\ \A i \in 1..Len(batch) :
                   /\ result[i].replacement = batch[i].rule.replacement
                   /\ batch[i].key = batchCall.secret =>
                          result[i] = batch[i].rule
                   /\ batch[i].key = "plain" => result[i] = batch[i].rule
                   /\ batch[i].key \notin {batchCall.secret, "plain"} =>
                          /\ "decryptFailed" \in DOMAIN result[i]
                          /\ result[i].decryptFailed = TRUE
                          /\ result[i].original = Null

\* a batch of two in which the first entry fails and the second decrypts
C15_Witness ==
    /\ batchCall.kind = "called"
    /\ Len(batchCall.batch) = 2
    /\ batchCall.batch[1].key \notin {batchCall.secret, "plain"}
    /\ batchCall.batch[2].key = batchCall.secret
    /\ batchCall.result[2].original = batchCall.batch[2].rule.original

-----------------------------------------------------------------------------
(* Copier: copyFile, copyFileWithTransform, copyFiles *)

\* some of scanner.js BINARY_EXTENSIONS
BINARY_EXTENSIONS == {".png", ".bin"}

\* extname(filePath): a path of the model is its characters followed by one
\* token that holds the extension
extname(filePath) == filePath[Len(filePath)]

\* String.prototype.toLowerCase on an extension token
extToLowerCase(ext) ==
    CASE ext = ".PNG" -> ".png" [] ext = ".JS" -> ".js" [] OTHER -> ext

\* isBinaryFile(filePath)
isBinaryFile(filePath) == extToLowerCase(extname(filePath)) \in BINARY_EXTENSIONS

\* readFileSync(path, 'utf-8') decodes: a byte that is not UTF-8 becomes U+FFFD
decodeText(bytes) ==
    [k \in 1..Len(bytes) |-> IF bytes[k] = "xFF" THEN "uFFFD" ELSE bytes[k]]

\* writeFileSync(path, content, 'utf-8') encodes: U+FFFD is three bytes
RECURSIVE encodeText(_)
encodeText(text) ==
    IF text = <<>> THEN <<>>
    ELSE (IF Head(text) = "uFFFD" THEN <<"xEF", "xBF", "xBD">> ELSE <<Head(text)>>)
         \o encodeText(Tail(text))

\* the relative paths of the source tree
CopyPaths == {<<"a", ".js">>, <<"b", ".js">>, <<"a", ".PNG">>, <<"b", ".png">>}

\* what the source tree holds at a path
SourceBytes(path) ==
    IF isBinaryFile(path) THEN <<"a", "xFF">>
    ELSE IF path[1] = "b" THEN <<"b", "xFF">> ELSE <<"a">>

\* the fs calls that throw for one file
DiskFaults == {{}, {"mkdir"}, {"read"}, {"write"}, {"copy"}, {"read", "copy"}}

\* a file object of the scanner, together with what the disk does for it
FilePool ==
    {[relativePath |-> p, absolutePath |-> <<"/", "s", "/">> \o p,
      bytes |-> SourceBytes(p), faults |-> f] : p \in CopyPaths, f \in DiskFaults}

\* file lists: each path of the tree at most once
FileLists ==
    UNION {{l \in [1..n -> FilePool] :
              \A j, k \in 1..n : j # k => l[j].relativePath # l[k].relativePath}
           : n \in 0..MaxFiles}

\* the rules of the run
CopyRules == <<[original |-> <<"a">>, replacement |-> <<"b">>]>>

\* the arguments of copyFiles besides the files and the two directories:
\* transformFn, onProgress (supplied or not), replacements
CopyArgs ==
    {[transformFn |-> [kind |-> "none"], onProgress |-> TRUE, replacements |-> <<>>],
     [transformFn |-> [kind |-> "anonymizer", rules |-> CopyRules],
      onProgress |-> TRUE, replacements |-> <<>>],
     [transformFn |-> [kind |-> "anonymizer", rules |-> CopyRules],
      onProgress |-> TRUE, replacements |-> CopyRules],
     [transformFn |-> [kind |-> "anonymizer", rules |-> CopyRules],
      onProgress |-> FALSE, replacements |-> CopyRules]}

\* transformFn(content)
callTransform(fn, text) == createAnonymizer(fn.rules, text)

\* the destination tree after bytes are written at destPath
writeTree(tree, destPath, bytes) ==
    {e \in tree : e.path # destPath} \cup {[path |-> destPath, bytes |-> bytes]}

\* copyFileSync(sourcePath, destPath)
copyFileSync(file, destPath, tree) ==
    IF "copy" \in file.faults
    THEN [kind |-> "throw", error |-> "copyFileSync failed", tree |-> tree,
          called |-> FALSE]
    ELSE [kind |-> "return", result |-> [transformed |-> FALSE],
          tree |-> writeTree(tree, destPath, file.bytes), called |-> FALSE]

\* copyFile(sourcePath, destPath)
copyFile(file, destPath, tree) ==
    IF "mkdir" \in file.faults
    THEN [kind |-> "throw", error |-> "mkdirSync failed", tree |-> tree,
          called |-> FALSE]
    ELSE copyFileSync(file, destPath, tree)

\* the catch block of copyFileWithTransform: copy as-is
copyFallback(file, destPath, tree, message, called) ==
    LET c == copyFileSync(file, destPath, tree) IN
    IF c.kind = "throw" THEN [c EXCEPT !.called = called]
    ELSE [kind |-> "return",
          result |-> [transformed |-> FALSE, error |-> message],
          tree |-> c.tree, called |-> called]

\* a copyFileWithTransform that reads every file as text
copyFileWithTransform_allText(file, destPath, fn, tree) ==
    LET original == decodeText(file.bytes)
        new == callTransform(fn, original)
    IN  [kind |-> "return",
         result |-> [transformed |-> new # original,
                     originalLength |-> Len(original), newLength |-> Len(new)],
         tree |-> writeTree(tree, destPath, encodeText(new)), called |-> TRUE]

\* a copyFileWithTransform whose catch block rethrows
copyFileWithTransform_noFallback(file, destPath, fn, tree) ==
    IF "mkdir" \in file.faults \/ "read" \in file.faults \/ "write" \in file.faults
    THEN [kind |-> "throw", error |-> "fs call failed", tree |-> tree,
          called |-> "read" \notin file.faults /\ "mkdir" \notin file.faults
                     /\ ~isBinaryFile(file.absolutePath)]
    ELSE IF isBinaryFile(file.absolutePath)
    THEN copyFileSync(file, destPath, tree)
    ELSE copyFileWithTransform_allText(file, destPath, fn, tree)

\* copyFileWithTransform(sourcePath, destPath, transformFn)
copyFileWithTransform(file, destPath, fn, tree) ==
    IF "mkdir" \in file.faults
    THEN [kind |-> "throw", error |-> "mkdirSync failed", tree |-> tree,
          called |-> FALSE]
    ELSE IF isBinaryFile(file.absolutePath)
    THEN copyFileSync(file, destPath, tree)
    ELSE IF "read" \in file.faults
    THEN copyFallback(file, destPath, tree, "readFileSync failed", FALSE)
    ELSE LET original == decodeText(file.bytes)
             new == callTransform(fn, original)
         IN  IF "write" \in file.faults
             THEN copyFallback(file, destPath, tree, "writeFileSync failed", TRUE)
             ELSE [kind |-> "return",
                   result |-> [transformed |-> new # original,
                               originalLength |-> Len(original),
                               newLength |-> Len(new)],
                   tree |-> writeTree(tree, destPath, encodeText(new)),
                   called |-> TRUE]

\* the try block of copyFiles for one file: copy it, with the transform when
\* one was supplied
copyAttempt(file, destPath, args, tree) ==
    IF args.transformFn.kind # "none"
    THEN copyFileWithTransform(file, destPath, args.transformFn, tree)
    ELSE copyFile(file, destPath, tree)

\* a tally that drops the error of a failed file
tally_swallow(res, file, args, out) ==
    IF out.kind = "return"
    THEN [res EXCEPT !.copied = @ + 1]
    ELSE res

\* a tally that counts a file as copied before its copy is known to succeed
tally_countFirst(res, file, args, out) ==
    IF out.kind = "return"
    THEN [res EXCEPT !.transformed =
                        IF args.transformFn.kind # "none" /\ out.result.transformed
                        THEN @ + 1 ELSE @,
                     !.copied = @ + 1]
    ELSE [res EXCEPT !.copied = @ + 1,
                     !.errors = Append(@, [file |-> file.relativePath,
                                           error |-> out.error])]

\* the try/catch of copyFiles around one file: what it does to results
tally(res, file, args, out) ==
    IF out.kind = "return"
    THEN [res EXCEPT !.transformed =
                        IF args.transformFn.kind # "none" /\ out.result.transformed
                        THEN @ + 1 ELSE @,
                     !.copied = @ + 1]
    ELSE [res EXCEPT !.errors = Append(@, [file |-> file.relativePath,
                                           error |-> out.error])]

\* a notification that reports the index instead of the count
notify_index(args, index, total, path) ==
    IF args.onProgress
    THEN <<[ev |-> "progress", completedCount |-> index, totalCount |-> total,
            path |-> path]>>
    ELSE <<>>

\* if (onProgress) onProgress(i + 1, files.length, anonymizedPath)
notify(args, index, total, path) ==
    IF args.onProgress
    THEN <<[ev |-> "progress", completedCount |-> index + 1, totalCount |-> total,
            path |-> path]>>
    ELSE <<>>

InitCopy ==
    /\ AnonIdle
    /\ MapIdle
    /\ CryptoIdle
    /\ SelectIdle
    /\ ScanIdle
    /\ SecretIdle
    /\ PushIdle
    /\ StoreIdle
    /\ BatchIdle
    /\ copyPc = "loop"
    /\ fileList \in FileLists
    /\ copyArgs \in CopyArgs
    /\ loopIndex = 0
    /\ results = [total |-> Len(fileList), copied |-> 0, transformed |-> 0,
                  pathsRenamed |-> 0, errors |-> <<>>]
    /\ destTree = {}
    /\ copyTrace = <<>>

\* one iteration of the for loop of copyFiles
CopyOne ==
    /\ copyPc = "loop"
    /\ loopIndex < Len(fileList)
    /\ LET file == fileList[loopIndex + 1]
           originalRelativePath == file.relativePath
           anonymized == copier_anonymizePath(originalRelativePath,
                                              copyArgs.replacements)
           destPath == <<"/", "d", "/">> \o anonymized
           counted == IF anonymized # originalRelativePath
                      THEN [results EXCEPT !.pathsRenamed = @ + 1]
                      ELSE results
           out == copyAttempt(file, destPath, copyArgs, destTree)
       IN  /\ destTree' = out.tree
           /\ results' = tally(counted, file, copyArgs, out)
           /\ copyTrace' = copyTrace \o
                <<[ev |-> "start", index |-> loopIndex, dest |-> destPath]>> \o
                (IF out.called
                 THEN <<[ev |-> "transform", index |-> loopIndex]>> ELSE <<>>) \o
                <<[ev |-> "end", index |-> loopIndex, outcome |-> out.kind,
                   result |-> IF out.kind = "return" THEN out.result
                              ELSE [error |-> out.error]]>> \o
                notify(copyArgs, loopIndex, Len(fileList), anonymized)
    /\ loopIndex' = loopIndex + 1
    /\ UNCHANGED <<copyPc, fileList, copyArgs>>
    /\ UNCHANGED <<anonVars, mapVars, cryptoVars, secretVars, pushVars,
                   storeVars, batchVars, scanVars, selectVars>>

\* return results
CopyReturn ==
    /\ copyPc = "loop"
    /\ loopIndex = Len(fileList)
    /\ copyPc' = "returned"
    /\ UNCHANGED <<fileList, copyArgs, loopIndex, results, destTree, copyTrace>>
    /\ UNCHANGED <<anonVars, mapVars, cryptoVars, secretVars, pushVars,
                   storeVars, batchVars, scanVars, selectVars>>

NextCopy == CopyOne \/ CopyReturn

SpecCopy == InitCopy /\ [][NextCopy]_vars

-----------------------------------------------------------------------------
(* Claims about the copier *)

\* the entries of the trace of one kind, in order
TraceOf(kind) == SelectSeq(copyTrace, LAMBDA e : e.ev = kind)

\* the files whose copy threw, in order
FailedEnds == SelectSeq(copyTrace, LAMBDA e : e.ev = "end" /\ e.outcome = "throw")

\* C16: a file whose copy (copyFile or copyFileWithTransform) throws gets
\* exactly one {file, error} record, in list order, and nothing else changes
\* for it; the loop goes on to the next file whatever the outcome, every file
\* is attempted exactly once, and copyFiles ends by returning results.
C16_FailureIsolation ==
    /\ \A j \in 0..(Len(fileList) - 1) :
         Cardinality({k \in DOMAIN copyTrace :
                        copyTrace[k].ev = "start" /\ copyTrace[k].index = j})
           = IF j < loopIndex THEN 1 ELSE 0
    /\ results.errors =
         [k \in 1..Len(FailedEnds) |->
            [file |-> fileList[FailedEnds[k].index + 1].relativePath,
             error |-> FailedEnds[k].result.error]]
    /\ results.copied = Len(TraceOf("end")) - Len(FailedEnds)
    /\ results.copied + Len(results.errors) = loopIndex
    /\ results.total = Len(fileList)
    /\ copyPc = "returned" => loopIndex = Len(fileList)
    /\ copyPc \in {"loop", "returned"}
    /\ loopIndex <= Len(fileList)

\* C16 witness: copyFiles returned after its first file failed and a later
\* one was copied
C16_Witness ==
    /\ copyPc = "returned"
    /\ Len(fileList) >= 2
    /\ Len(results.errors) = 1
    /\ results.errors[1].file = fileList[1].relativePath
    /\ results.copied = Len(fileList) - 1

\* the entry of the trace of a given kind for the file at index j (one at most)
EventsAt(kind, j) ==
    {copyTrace[k] : k \in {n \in DOMAIN copyTrace :
                             copyTrace[n].ev = kind /\ copyTrace[n].index = j}}

\* what the destination tree holds at a path
BytesAt(destPath) == {e.bytes : e \in {d \in destTree : d.path = destPath}}

\* C17: a processed file with a binary extension: the transform was not
\* called on it, its result says transformed = false, and when its copy
\* returned the destination holds exactly the source bytes (nothing when it
\* threw); the transformed count counts only non-binary files.
C17_BinaryPassthrough ==
    /\ \A j \in 0..(loopIndex - 1) :
         isBinaryFile(fileList[j + 1].absolutePath) =>
           /\ EventsAt("transform", j) = {}
           /\ \A s \in EventsAt("start", j), e \in EventsAt("end", j) :
                IF e.outcome = "return"
                THEN /\ e.result.transformed = FALSE
                     /\ BytesAt(s.dest) = {fileList[j + 1].bytes}
                ELSE BytesAt(s.dest) = {}
    /\ results.transformed =
         Cardinality({j \in 0..(loopIndex - 1) :
                        /\ ~isBinaryFile(fileList[j + 1].absolutePath)
                        /\ \E e \in EventsAt("end", j) :
                             e.outcome = "return" /\ e.result.transformed})

\* C17 witness: a binary file holding a keyword of the rules went through
\* copyFiles with a transform and with path rules, and was copied
C17_Witness ==
    /\ copyPc = "returned"
    /\ copyArgs.transformFn.kind = "anonymizer"
    /\ copyArgs.replacements # <<>>
    /\ \E j \in 0..(loopIndex - 1) :
         /\ isBinaryFile(fileList[j + 1].absolutePath)
         /\ callTransform(copyArgs.transformFn, fileList[j + 1].bytes)
              # fileList[j + 1].bytes
         /\ \E e \in EventsAt("end", j) : e.outcome = "return"
         /\ \E s \in EventsAt("start", j) : BytesAt(s.dest) # {}

\* the processed text files for which readFileSync threw while a transform
\* was supplied
ReadFailed ==
    {j \in 0..(loopIndex - 1) :
       /\ copyArgs.transformFn.kind # "none"
       /\ ~isBinaryFile(fileList[j + 1].absolutePath)
       /\ "mkdir" \notin fileList[j + 1].faults
       /\ "read" \in fileList[j + 1].faults}

\* the files of results.errors
ErrorFiles == {results.errors[k].file : k \in DOMAIN results.errors}

\* the destination paths the processed files in js were written to
WrittenDests(js) ==
    {s.dest : s \in UNION {IF \E e \in EventsAt("end", k) : e.outcome = "return"
                            THEN EventsAt("start", k) ELSE {} : k \in js}}

\* what the fallback did for file j when its raw copy went through: the
\* destination holds the source bytes (until a later file of the run is
\* written to the same path)
FellBack(j) ==
    /\ EventsAt("transform", j) = {}
    /\ \A s \in EventsAt("start", j), e \in EventsAt("end", j) :
         /\ e.outcome = "return"
         /\ e.result.transformed = FALSE
         /\ s.dest \notin WrittenDests((j + 1)..(loopIndex - 1))
              => BytesAt(s.dest) = {fileList[j + 1].bytes}
    /\ fileList[j + 1].relativePath \notin ErrorFiles

\* C18 as stated: whenever reading a non-binary file as text fails, the
\* source bytes are at the destination, the result says transformed = false,
\* the file is counted as copied and has no errors entry.
C18_TextFallback ==
    /\ \A j \in ReadFailed : FellBack(j)
    /\ results.copied >= Cardinality(ReadFailed)

\* C18 amended: the fallback is a copyFileSync that can throw as well. When
\* it goes through the file is a raw copy, transformed = false, counted as
\* copied and without an errors entry; when it throws nothing is written, the
\* file is not counted as copied and has exactly one errors entry. Either
\* way the loop goes on.
C18_TextFallbackAmended ==
    /\ \A j \in ReadFailed :
         IF "copy" \notin fileList[j + 1].faults
         THEN FellBack(j)
         ELSE /\ EventsAt("transform", j) = {}
              /\ \A s \in EventsAt("start", j), e \in EventsAt("end", j) :
                   /\ e.outcome = "throw"
                   /\ s.dest \notin WrittenDests((0..(loopIndex - 1)) \ {j})
                        => BytesAt(s.dest) = {}
              /\ Len(SelectSeq(results.errors,
                       LAMBDA r : r.file = fileList[j + 1].relativePath)) = 1
    /\ results.copied + Len(results.errors) = loopIndex
    /\ results.copied >=
         Cardinality({j \in ReadFailed : "copy" \notin fileList[j + 1].faults})
    /\ copyPc = "returned" => loopIndex = Len(fileList)

\* C18 witness: copyFiles returned; a text file that could not be read was
\* copied raw by the fallback and a file after it was processed
C18_Witness ==
    /\ copyPc = "returned"
    /\ Len(fileList) >= 2
    /\ 0 \in ReadFailed
    /\ "copy" \notin fileList[1].faults
    /\ FellBack(0)
    /\ results.copied >= 1

\* C19: files are taken one at a time in list order, and a supplied progress
\* callback is called once per file, right after that file's copy ended
\* (returned or threw) and before the next file is started, with
\* completedCount = 1, 2, ..., total in order and totalCount = files.length.
C19_SequentialProgress ==
    LET starts == TraceOf("start")
        ends == TraceOf("end")
        calls == TraceOf("progress")
    IN  /\ Len(starts) = loopIndex
        /\ Len(ends) = loopIndex
        /\ \A k \in 1..loopIndex : starts[k].index = k - 1 /\ ends[k].index = k - 1
        /\ \A k \in DOMAIN copyTrace :
             /\ copyTrace[k].ev = "start" =>
                  \A n \in 1..(k - 1) :
                     copyTrace[n].ev \in {"start", "transform", "end"}
                       => copyTrace[n].index < copyTrace[k].index
             /\ copyTrace[k].ev = "end" =>
                  \E n \in 1..(k - 1) :
                     copyTrace[n].ev = "start"
                       /\ copyTrace[n].index = copyTrace[k].index
        /\ copyArgs.onProgress =>
             /\ Len(calls) = loopIndex
             /\ \A k \in 1..Len(calls) :
                  /\ calls[k].completedCount = k
                  /\ calls[k].totalCount = Len(fileList)
             /\ \A k \in DOMAIN copyTrace :
                  copyTrace[k].ev = "progress" =>
                    /\ k > 1
                    /\ copyTrace[k - 1].ev = "end"
                    /\ copyTrace[k - 1].index = copyTrace[k].completedCount - 1
                    /\ k < Len(copyTrace) =>
                         /\ copyTrace[k + 1].ev = "start"
                         /\ copyTrace[k + 1].index = copyTrace[k].completedCount
        /\ copyPc = "returned" /\ copyArgs.onProgress
             => Len(calls) = Len(fileList)

\* C19 witness: copyFiles returned from a list of two files or more, one of
\* which failed, and the callback was called for each
C19_Witness ==
    /\ copyPc = "returned"
    /\ copyArgs.onProgress
    /\ Len(fileList) >= 2
    /\ results.errors # <<>>
    /\ results.copied >= 1
    /\ Len(TraceOf("progress")) = Len(fileList)

-----------------------------------------------------------------------------
(* C24: the first-use race on the secret *)

\* C24: whatever the interleaving of the processes, a call never ends in an
\* error (a process is either idle or between its check and its write), and
\* the persisted secret is the value of the call that returned last: the last
\* writer wins.
C24_LastWriterWins ==
    /\ \A p \in Procs : secretPc[p] \in {"idle", "generate"}
    /\ returned # <<>> =>
         /\ hasSecret
         /\ secretFile = returned[Len(returned)].value

\* C24 witness: two processes each wrote the secret they generated, the two
\* differ, and the file holds the second
C24_Witness ==
    /\ Len(returned) = 2
    /\ returned[1].proc # returned[2].proc
    /\ returned[1].value # returned[2].value
    /\ secretFile = returned[2].value
    /\ \A p \in Procs : secretPc[p] = "idle"

-----------------------------------------------------------------------------
(* Rewrites of a stored record: createMapping, mergeMapping, updateMapping *)

\* updateMapping(destDir, updates): { ...mapping, ...updates, updatedAt }
updateMapping(mapping, updates, now) ==
    [k \in DOMAIN mapping \cup DOMAIN updates \cup {"updatedAt"} |->
        CASE k = "updatedAt" -> now
          [] k \in DOMAIN updates -> updates[k]
          [] OTHER -> mapping[k]]

\* what a destination directory can hold when the tool is started: nothing,
\* a record of format 1.1.0, or a record written without encryption
StoredRecords ==
    {NoFile}
      \cup {JsonRecord(EncryptedRecord(plain, secret)) :
               plain \in PlainRecords, secret \in Secrets}
      \cup {JsonRecord(LegacyRecord(plain)) : plain \in PlainRecords}

\* the files selected in a pull
RewriteSelections == {<<<<"a">>>>, <<<<"a">>, <<"A", "b">>>>}

\* the updates a caller passes to updateMapping
UpdatePool == {[note |-> "n"], [tool |-> "repo-cloak", note |-> "m"]}

InitRewrite ==
    /\ AnonIdle
    /\ CryptoIdle
    /\ RestIdle
    /\ mapFile \in StoredRecords
    /\ clock = 0
    /\ lastPull = [kind |-> "none"]
    /\ mergeCount = 0

\* pull in "fresh" mode, or with no record found at the destination asked
\* for first: the destination finally chosen is not looked at again. The
\* rules are the ones prompted for (Step 5); copyFiles with them (Step 8),
\* newFiles (Step 9), createMapping, then saveMapping over whatever is there
RewriteCreate(selectedFiles, rules) ==
    /\ clock < MaxRewrites
    /\ LET newFiles == newFilesOf(selectedFiles, rules)
           mapping == createMapping([sourceDir |-> "/src", destDir |-> "/dest",
                                     replacements |-> rules, files |-> newFiles,
                                     timestamp |-> clock + 1])
       IN  /\ mapFile' = JsonRecord(mapping)
           /\ lastPull' = [kind |-> "create", before |-> mapFile,
                           selected |-> selectedFiles, applied |-> rules,
                           secret |-> NoSecret,
                           newFiles |-> newFiles, mapping |-> mapping]
    /\ mergeCount' = 0
    /\ clock' = clock + 1
    /\ UNCHANGED <<anonVars, cryptoVars, restVars>>

\* Step 2 of pull in "quick" or "extend" mode: the rules of the existing
\* record that the user's secret decrypts; none when the record is not
\* encrypted or there is no secret
existingReplacementsOf(existingMapping, secret) ==
    IF IsEncrypted(existingMapping) /\ secret # NoSecret
    THEN SelectSeq(decryptReplacements(existingMapping.replacements, secret),
                   LAMBDA r : "decryptFailed" \notin DOMAIN r)
    ELSE <<>>

\* pull in "quick" or "extend" mode: the rules are the existing ones followed
\* by the additional ones prompted for (Step 5, none when the user declines
\* in quick mode); copyFiles with them (Step 8), newFiles (Step 9),
\* mergeMapping on the raw record, then saveMapping
RewriteMerge(selectedFiles, additionalReplacements, secret) ==
    /\ clock < MaxRewrites
    /\ hasMapping
    /\ LET rules == existingReplacementsOf(mapFile, secret)
                       \o additionalReplacements
           newFiles == newFilesOf(selectedFiles, rules)
           mapping == mergeMapping(mapFile, newFiles, clock + 1)
       IN  /\ mapFile' = JsonRecord(mapping)
           /\ lastPull' = [kind |-> "merge", before |-> mapFile,
                           selected |-> selectedFiles, applied |-> rules,
                           secret |-> secret,
                           newFiles |-> newFiles, mapping |-> mapping]
    /\ mergeCount' = mergeCount + 1
    /\ clock' = clock + 1
    /\ UNCHANGED <<anonVars, cryptoVars, restVars>>

\* updateMapping(destDir, updates) on an existing record (it throws when
\* there is none)
UpdateMapping(updates) ==
    /\ clock < MaxRewrites
    /\ hasMapping
    /\ LET updated == updateMapping(mapFile, updates, clock + 1)
       IN  /\ mapFile' = updated
           /\ lastPull' = [kind |-> "update", before |-> mapFile,
                           mapping |-> updated]
    /\ clock' = clock + 1
    /\ UNCHANGED mergeCount
    /\ UNCHANGED <<anonVars, cryptoVars, restVars>>

NextRewrite ==
    \/ \E selectedFiles \in RewriteSelections, rules \in RulePool :
          RewriteCreate(selectedFiles, rules)
    \/ \E selectedFiles \in RewriteSelections, rules \in RulePool,
          secret \in Secrets \cup {NoSecret} :
          RewriteMerge(selectedFiles, rules, secret)
    \/ \E updates \in UpdatePool : UpdateMapping(updates)

SpecRewrite == InitRewrite /\ [][NextRewrite]_vars

\* C21: a rewrite of a record that has encrypted = true leaves a record that
\* has encrypted = true.
C21_NeverDowngraded == [][IsEncrypted(mapFile) => IsEncrypted(mapFile')]_vars

\* the properties of a record that mergeMapping may change
MergeWrites == {"files", "stats", "pullHistory"}

\* C22: the record mergeMapping returns has the properties of the existing
\* record and pullHistory; apart from files, stats.totalFiles and
\* pullHistory every one of them (replacements, version, timestamp, source,
\* destination, encrypted when there is one, stats.replacementsCount) is
\* the existing record's.
C22_MergeFrame ==
    lastPull.kind = "merge" =>
        LET old == lastPull.before
            new == lastPull.mapping
        IN  /\ DOMAIN new = DOMAIN old \cup {"pullHistory"}
            /\ \A k \in DOMAIN old \ MergeWrites : new[k] = old[k]
            /\ new.replacements = old.replacements
            /\ new.stats.replacementsCount = old.stats.replacementsCount
            /\ DOMAIN new.stats = DOMAIN old.stats
            /\ IsEncrypted(new) = IsEncrypted(old)
            /\ mapFile = JsonRecord(new)

\* C22 witness: a merge into an encrypted record that has rules added a file
C22_Witness ==
    /\ lastPull.kind = "merge"
    /\ IsEncrypted(lastPull.before)
    /\ lastPull.before.replacements # <<>>
    /\ Len(lastPull.mapping.files) > Len(lastPull.before.files)
    /\ lastPull.mapping.timestamp # clock

-----------------------------------------------------------------------------
(* C25: the counters of copyFiles *)

\* the processed files whose computed path differs from their relative path
RenamedSoFar ==
    {j \in 0..(loopIndex - 1) :
       copier_anonymizePath(fileList[j + 1].relativePath, copyArgs.replacements)
         # fileList[j + 1].relativePath}

\* C25 as stated: copied + errors.length is the number of files processed,
\* on return it is total = files.length, and transformed <= copied and
\* pathsRenamed <= copied.
C25_Counters ==
    /\ results.copied + Len(results.errors) = loopIndex
    /\ copyPc = "returned" =>
         /\ results.copied + Len(results.errors) = results.total
         /\ results.total = Len(fileList)
    /\ results.transformed <= results.copied
    /\ results.pathsRenamed <= results.copied

\* C25 amended: pathsRenamed is counted before the copy is tried, so it counts
\* every processed file whose computed path differs, copied or not; it is
\* bounded by the number of files processed, not by copied.
C25_CountersAmended ==
    /\ results.copied + Len(results.errors) = loopIndex
    /\ copyPc = "returned" =>
         /\ results.copied + Len(results.errors) = results.total
         /\ results.total = Len(fileList)
    /\ results.transformed <= results.copied
    /\ results.pathsRenamed = Cardinality(RenamedSoFar)
    /\ results.pathsRenamed <= loopIndex

\* C25 witness: copyFiles returned; a file whose path was renamed failed to
\* copy and another file was copied and transformed
C25_Witness ==
    /\ copyPc = "returned"
    /\ Len(results.errors) >= 1
    /\ results.transformed >= 1
    /\ \E j \in RenamedSoFar :
         \E e \in EventsAt("end", j) : e.outcome = "throw"

-----------------------------------------------------------------------------
(* C28: destination paths within one run *)

\* the destination path computed for the file at index j
DestOf(j) ==
    copier_anonymizePath(fileList[j + 1].relativePath, copyArgs.replacements)

\* C28: the files of the list have pairwise distinct relative paths (FileLists),
\* and the destination paths computed for the processed ones are pairwise
\* distinct, so the destination holds as many files as copied reports.
C28_NoOverwrite ==
    /\ \A j, k \in 0..(loopIndex - 1) : j # k => DestOf(j) # DestOf(k)
    /\ Cardinality(destTree) = results.copied

-----------------------------------------------------------------------------
(* C26, C27: what a pull saves against what it did *)

\* the destination-relative path copyFiles writes a selected file to
WrittenPath(path, rules) == copier_anonymizePath(path, rules)

\* C26: after a pull, every selected file has an entry in the saved record
\* whose cloaked path is the path copyFiles wrote it to.
C26_MappingMatchesCopy ==
    lastPull.kind \in {"create", "merge"} =>
        \A i \in 1..Len(lastPull.selected) :
            \E k \in 1..Len(mapFile.files) :
                /\ Field(mapFile.files[k], "original") = lastPull.selected[i]
                /\ Field(mapFile.files[k], "cloaked")
                     = WrittenPath(lastPull.selected[i], lastPull.applied)

\* a rule is in a stored list: as it is, or with its original encrypted
\* under the secret of the pull
Recorded(rule, stored, secret) ==
    \E k \in 1..Len(stored) :
        /\ stored[k].replacement = rule.replacement
        /\ \/ stored[k].original = rule.original
           \/ /\ IsEncrypted(stored[k])
              /\ secret # NoSecret
              /\ decrypt(stored[k].original, secret).value = rule.original

\* C27: after a pull that saved a record, every rule applied to the files
\* copied in that pull is in the replacements of the saved record.
C27_AppliedRulesRecorded ==
    lastPull.kind \in {"create", "merge"} =>
        \A i \in 1..Len(lastPull.applied) :
            Recorded(lastPull.applied[i], mapFile.replacements, lastPull.secret)

-----------------------------------------------------------------------------
(* Scanner: shouldIgnore, getAllFiles; the file lists of pull and push *)

\* MAP_FILENAME
MAP_FILENAME == ".repo-cloak-map.json"

\* the entry names of the model in the order readdirSync lists them; a path
\* is a sequence of names
NameOrder ==
    <<".env", ".git", ".github", MAP_FILENAME, "HEAD", "a.js", "build",
      "ci.yml", "index.js", "out.js", "src">>

\* name.startsWith('.')
startsWithDot(name) == name \in {".env", ".git", ".github", MAP_FILENAME}

\* some of the scanner's IGNORE_DIRS
IGNORE_DIRS ==
    {"node_modules", ".git", "dist", "build", MAP_FILENAME, ".env"}

\* the IGNORE_DIRS of ui/fileSelector.js: the scanner's names that do not
\* start with a dot, and more
SELECTOR_IGNORE_DIRS ==
    {"node_modules", ".git", "dist", "build", MAP_FILENAME, "obj", "bin"}

\* shouldIgnore(name) of the scanner
shouldIgnore(name) == name \in IGNORE_DIRS \/ startsWithDot(name)

\* shouldIgnore(name) of the file selector
selector_shouldIgnore(name) == name \in SELECTOR_IGNORE_DIRS \/ startsWithDot(name)

\* the files a directory of the model can hold
TreePaths ==
    {<<"index.js">>, <<MAP_FILENAME>>, <<"src", "a.js">>, <<"src", ".env">>,
     <<".github", "ci.yml">>, <<"build", "out.js">>, <<".git", "HEAD">>}

\* path begins with dir and is longer
Under(path, dir) ==
    Len(path) > Len(dir) /\ SubSeq(path, 1, Len(dir)) = dir

\* readdirSync(dir, { withFileTypes: true }): the names directly under dir;
\* it throws for a directory that cannot be read
readdirSync(tree, dir) ==
    SelectSeq(NameOrder,
              LAMBDA n : \E p \in tree.files : Under(p, dir) /\ p[Len(dir) + 1] = n)

\* entry.isDirectory()
isDirectory(tree, path) == \E p \in tree.files : Under(p, path)

\* getAllFiles(dir, basePath, files): the walk, entry by entry
RECURSIVE getAllFiles(_, _), scanEntries(_, _, _)
scanEntries(tree, dir, entries) ==
    IF entries = <<>> THEN <<>>
    ELSE LET name == Head(entries)
             fullPath == Append(dir, name)
             found == IF shouldIgnore(name) THEN <<>>
                      ELSE IF isDirectory(tree, fullPath)
                      THEN getAllFiles(tree, fullPath)
                      ELSE <<[relativePath |-> fullPath, name |-> name]>>
         IN  found \o scanEntries(tree, dir, Tail(entries))

getAllFiles(tree, dir) ==
    IF dir \in tree.unreadable THEN <<>>
    ELSE scanEntries(tree, dir, readdirSync(tree, dir))

\* getFilesInDirectory(dir) of the file selector: the same walk with the
\* selector's shouldIgnore, collecting paths
RECURSIVE getFilesInDirectory(_, _), collectEntries(_, _, _)
collectEntries(tree, dir, entries) ==
    IF entries = <<>> THEN <<>>
    ELSE LET name == Head(entries)
             fullPath == Append(dir, name)
             found == IF selector_shouldIgnore(name) THEN <<>>
                      ELSE IF isDirectory(tree, fullPath)
                      THEN getFilesInDirectory(tree, fullPath)
                      ELSE <<fullPath>>
         IN  found \o collectEntries(tree, dir, Tail(entries))

getFilesInDirectory(tree, dir) ==
    IF dir \in tree.unreadable THEN <<>>
    ELSE collectEntries(tree, dir, readdirSync(tree, dir))

\* the elements of a sequence
Range(seq) == {seq[i] : i \in DOMAIN seq}

\* the paths of a set, in the order of the walk with nothing ignored
RECURSIVE InWalkOrder(_, _)
InWalkOrder(paths, dir) ==
    LET names == SelectSeq(NameOrder,
                     LAMBDA n : \E p \in paths : Under(p, dir) /\ p[Len(dir) + 1] = n)
        RECURSIVE each(_)
        each(rest) ==
            IF rest = <<>> THEN <<>>
            ELSE (IF Append(dir, Head(rest)) \in paths
                  THEN <<Append(dir, Head(rest))>>
                  ELSE InWalkOrder(paths, Append(dir, Head(rest))))
                 \o each(Tail(rest))
    IN  each(names)

\* isGitRepo(dirPath)
isGitRepo(tree) == \E p \in tree.files : p[1] = ".git"

\* the directories pull can be pointed at
SourceTrees ==
    UNION {{[files |-> f, unreadable |-> u] :
               u \in SUBSET {d \in {<<"src">>} : \E p \in f : Under(p, d)}}
           : f \in SUBSET TreePaths}

InitScan ==
    /\ AnonIdle
    /\ MapIdle
    /\ CryptoIdle
    /\ SelectIdle
    /\ SecretIdle
    /\ PushIdle
    /\ StoreIdle
    /\ BatchIdle
    /\ CopyIdle
    /\ treePc = "start"
    /\ sourceTree \in SourceTrees
    /\ gitChanged \in
         IF isGitRepo(sourceTree)
         THEN SUBSET {p \in sourceTree.files : p[1] # ".git"}
         ELSE {{}}
    /\ pulled = <<>>
    /\ cloakedTree = [files |-> {}, unreadable |-> {}]
    /\ mappedFiles = <<>>
    /\ pushFiles = <<>>
    /\ restoredTree = {}

\* Step 4 of pull without git: selectFiles(sourceDir) returns files that
\* getFilesInDirectory or the file index lists
PullSelectFiles(picked) ==
    /\ treePc = "start"
    /\ picked # {}
    /\ picked \subseteq sourceTree.files
    /\ picked \subseteq Range(getFilesInDirectory(sourceTree, <<>>))
    /\ pulled' = InWalkOrder(picked, <<>>)
    /\ treePc' = "selected"
    /\ UNCHANGED <<sourceTree, gitChanged, cloakedTree, mappedFiles, pushFiles,
                   restoredTree>>
    /\ UNCHANGED <<anonVars, mapVars, cryptoVars, secretVars, pushVars,
                   storeVars, batchVars, copyVars, selectVars>>

\* Step 4 of pull with git: the changed files that exist, all ticked, less
\* the ones the user unticks
PullSelectGit(picked) ==
    /\ treePc = "start"
    /\ isGitRepo(sourceTree)
    /\ picked # {}
    /\ picked \subseteq {p \in gitChanged : p \in sourceTree.files}
    /\ pulled' = InWalkOrder(picked, <<>>)
    /\ treePc' = "selected"
    /\ UNCHANGED <<sourceTree, gitChanged, cloakedTree, mappedFiles, pushFiles,
                   restoredTree>>
    /\ UNCHANGED <<anonVars, mapVars, cryptoVars, secretVars, pushVars,
                   storeVars, batchVars, copyVars, selectVars>>

\* Steps 8 to 10 of pull with an empty rule list: copyFiles writes each
\* selected file at its relative path, newFiles records it, the record is
\* saved in the destination
PullCopy ==
    /\ treePc = "selected"
    /\ cloakedTree' = [files |-> Range(pulled) \cup {<<MAP_FILENAME>>},
                       unreadable |-> {}]
    /\ mappedFiles' = [i \in 1..Len(pulled) |->
                          [original |-> pulled[i], cloaked |-> pulled[i]]]
    /\ treePc' = "pulled"
    /\ UNCHANGED <<sourceTree, gitChanged, pulled, pushFiles, restoredTree>>
    /\ UNCHANGED <<anonVars, mapVars, cryptoVars, secretVars, pushVars,
                   storeVars, batchVars, copyVars, selectVars>>

\* Step 7 of push: getAllFiles(cloakedDir)
PushScan ==
    /\ treePc = "pulled"
    /\ pushFiles' = getAllFiles(cloakedTree, <<>>)
    /\ treePc' = "scanned"
    /\ UNCHANGED <<sourceTree, gitChanged, pulled, cloakedTree, mappedFiles,
                   restoredTree>>
    /\ UNCHANGED <<anonVars, mapVars, cryptoVars, secretVars, pushVars,
                   storeVars, batchVars, copyVars, selectVars>>

\* Steps 7 to 9 of push: nothing to do when the list is empty; otherwise
\* copyFiles writes each file of the list at its relative path
PushCopy ==
    /\ treePc = "scanned"
    /\ restoredTree' = {pushFiles[i].relativePath : i \in 1..Len(pushFiles)}
    /\ treePc' = "restored"
    /\ UNCHANGED <<sourceTree, gitChanged, pulled, cloakedTree, mappedFiles,
                   pushFiles>>
    /\ UNCHANGED <<anonVars, mapVars, cryptoVars, secretVars, pushVars,
                   storeVars, batchVars, copyVars, selectVars>>

NextScan ==
    \/ \E picked \in SUBSET TreePaths : PullSelectFiles(picked)
    \/ \E picked \in SUBSET TreePaths : PullSelectGit(picked)
    \/ PullCopy
    \/ PushScan
    \/ PushCopy

SpecScan == InitScan /\ [][NextScan]_vars

\* every name of a path passes the scanner's shouldIgnore
Admitted(path) == \A i \in 1..Len(path) : ~shouldIgnore(path[i])

\* C23: getAllFiles returns no file named .repo-cloak-map.json and no file
\* with an ignored or dot name anywhere in its relative path; the list of
\* files a pull copies and the list a push copies never hold the mapping
\* file.
C23_MappingFileNeverCopied ==
    LET scanned == getAllFiles(sourceTree, <<>>)
    IN  /\ \A i \in 1..Len(scanned) :
             /\ scanned[i].name # MAP_FILENAME
             /\ Admitted(scanned[i].relativePath)
        /\ \A i \in 1..Len(pushFiles) :
             /\ pushFiles[i].name # MAP_FILENAME
             /\ Admitted(pushFiles[i].relativePath)
        /\ \A i \in 1..Len(pulled) :
             pulled[i][Len(pulled[i])] # MAP_FILENAME

\* C29: every entry of mapping.files whose cloaked path is in the cloaked
\* directory is in the list push passes to copyFiles, and after the copy it
\* is in the restore destination.
C29_PushRestoresAll ==
    /\ treePc \in {"scanned", "restored"} =>
         \A i \in 1..Len(mappedFiles) :
            mappedFiles[i].cloaked \in cloakedTree.files =>
               \E k \in 1..Len(pushFiles) :
                  pushFiles[k].relativePath = mappedFiles[i].cloaked
    /\ treePc = "restored" =>
         \A i \in 1..Len(mappedFiles) :
            mappedFiles[i].cloaked \in cloakedTree.files =>
               mappedFiles[i].cloaked \in restoredTree

\* ---------------------------------------------------------------------
\* The interactive file selector: ui/fileSelector.js
\* ---------------------------------------------------------------------

\* the items of a page of the model; the source shows 50 to a page
PAGE_SIZE == 2

\* filters typed in one call of selectFiles, at most
MaxFilterRounds == 3

\* buildFileIndex(baseDir, maxDepth = 8)
maxDepth == 8

\* the characters of the names of the model
Spelling(name) ==
    CASE name = "src" -> <<"s", "r", "c">>
      [] name = "a.js" -> <<"a", ".", "j", "s">>
      [] name = "index.js" -> <<"i", "n", "d", "e", "x", ".", "j", "s">>
      [] name = "out.js" -> <<"o", "u", "t", ".", "j", "s">>
      [] name = "build" -> <<"b", "u", "i", "l", "d">>
      [] name = ".env" -> <<".", "e", "n", "v">>

\* the directories selectFiles can be pointed at: an empty one, one with a
\* folder of three files, one whose folder cannot be read
SelectTrees ==
    {[files |-> {}, unreadable |-> {}],
     [files |-> {<<"src", "a.js">>, <<"src", "index.js">>, <<"src", "out.js">>,
                 <<"src", ".env">>, <<"build", "out.js">>, <<"index.js">>},
      unreadable |-> {}],
     [files |-> {<<"src", "a.js">>, <<"index.js">>}, unreadable |-> {<<"src">>}]}

\* the names in the order of a.name.localeCompare(b.name)
LocaleOrder ==
    <<".env", ".git", ".github", MAP_FILENAME, "a.js", "build", "ci.yml",
      "HEAD", "index.js", "out.js", "src">>

\* entries.sort(...): folders first, each group by localeCompare
sortEntries(tree, dir, entries) ==
    SelectSeq(LocaleOrder,
              LAMBDA n : n \in Range(entries) /\ isDirectory(tree, Append(dir, n)))
    \o SelectSeq(LocaleOrder,
              LAMBDA n : n \in Range(entries) /\ ~isDirectory(tree, Append(dir, n)))

\* buildFileIndex(baseDir, maxDepth): scan(dir, depth), entry by entry
RECURSIVE scan(_, _, _), scanIndexEntries(_, _, _, _)
scanIndexEntries(tree, dir, depth, entries) ==
    IF entries = <<>> THEN <<>>
    ELSE LET name == Head(entries)
             fullPath == Append(dir, name)
             item == [name |-> name, path |-> fullPath,
                      isDirectory |-> isDirectory(tree, fullPath),
                      depth |-> depth]
             found == IF selector_shouldIgnore(name) THEN <<>>
                      ELSE IF item.isDirectory
                      THEN <<item>> \o scan(tree, fullPath, depth + 1)
                      ELSE <<item>>
         IN  found \o scanIndexEntries(tree, dir, depth, Tail(entries))

scan(tree, dir, depth) ==
    IF depth > maxDepth \/ dir \in tree.unreadable THEN <<>>
    ELSE scanIndexEntries(tree, dir, depth,
                          sortEntries(tree, dir, readdirSync(tree, dir)))

buildFileIndex(tree) == scan(tree, <<>>, 0)

\* relative(baseDir, fullPath) as text: the names joined by the separator
RECURSIVE relativePath(_)
relativePath(path) ==
    IF Len(path) = 1 THEN Spelling(path[1])
    ELSE Spelling(path[1]) \o <<"/">> \o relativePath(Tail(path))

\* String.prototype.includes
includes(text, query) ==
    \E i \in 1..(Len(text) - Len(query) + 1) :
        SubSeq(text, i, i + Len(query) - 1) = query

\* fileIndex.filter(...): the entries whose relative path or name holds the
\* query
filterIndex(fileIndex, searchTerm) ==
    LET query == toLowerCase(searchTerm)
    IN  SelectSeq(fileIndex,
                  LAMBDA f : \/ includes(toLowerCase(relativePath(f.path)), query)
                             \/ includes(toLowerCase(Spelling(f.name)), query))

\* what the user can type at the filter prompt
Queries ==
    {<<>>, <<" ">>, <<"s", "r", "c">>, <<"o", "u", "t">>, <<"A">>, <<"x">>, <<"z">>}

\* showPaginatedResults: the items of the page
pageItemsOf(list, pg) ==
    LET start == pg * PAGE_SIZE
        end == IF start + PAGE_SIZE < Len(list) THEN start + PAGE_SIZE ELSE Len(list)
    IN  SubSeq(list, start + 1, end)

\* showPaginatedResults: hasMore
hasMoreOf(list, pg) == pg * PAGE_SIZE + PAGE_SIZE < Len(list)

\* showPaginatedResults: the tick an item is shown with
isChecked(tree, f, selection) ==
    IF f.isDirectory
    THEN LET childFiles == getFilesInDirectory(tree, f.path)
         IN  childFiles # <<>> /\ \A k \in 1..Len(childFiles) : childFiles[k] \in selection
    ELSE f.path \in selection

\* the file paths an item of the index stands for
filesOf(tree, f) ==
    IF f.isDirectory THEN Range(getFilesInDirectory(tree, f.path)) ELSE {f.path}

\* every item an index of the model can hold
IndexItems == UNION {Range(buildFileIndex(t)) : t \in SelectTrees}

InitSelect ==
    /\ AnonIdle
    /\ MapIdle
    /\ CryptoIdle
    /\ SecretIdle
    /\ PushIdle
    /\ StoreIdle
    /\ BatchIdle
    /\ CopyIdle
    /\ ScanIdle
    /\ selPc = "start"
    /\ selTree \in SelectTrees
    /\ selectedPaths = {}
    /\ filtered = <<>>
    /\ page = 0
    /\ filterRounds = 0
    /\ everAdded = {}
    /\ excused = {}

\* selectFiles up to the first prompt: an empty index returns []
SelectStart ==
    /\ selPc = "start"
    /\ selPc' = IF buildFileIndex(selTree) = <<>> THEN "returned" ELSE "prompt"
    /\ UNCHANGED <<selTree, selectedPaths, filtered, page, filterRounds,
                   everAdded, excused>>
    /\ UNCHANGED <<anonVars, mapVars, cryptoVars, secretVars, pushVars,
                   storeVars, batchVars, copyVars, scanVars>>

\* one answer at the filter prompt: an empty term ends the selection (after
\* a confirmation when nothing is selected), a term without matches asks
\* again, a term with matches opens its first page
FilterPrompt(searchTerm, confirmExit) ==
    /\ selPc = "prompt"
    /\ IF trim(searchTerm) = <<>>
       THEN /\ selPc' = IF selectedPaths # {} \/ confirmExit
                        THEN "returned" ELSE "prompt"
            /\ UNCHANGED <<filtered, page, filterRounds>>
       ELSE /\ filterRounds < MaxFilterRounds
            /\ filterRounds' = filterRounds + 1
            /\ LET matches == filterIndex(buildFileIndex(selTree), searchTerm)
               IN  IF matches = <<>>
                   THEN selPc' = "prompt" /\ UNCHANGED <<filtered, page>>
                   ELSE selPc' = "paging" /\ filtered' = matches /\ page' = 0
    /\ UNCHANGED <<selTree, selectedPaths, everAdded, excused>>
    /\ UNCHANGED <<anonVars, mapVars, cryptoVars, secretVars, pushVars,
                   storeVars, batchVars, copyVars, scanVars>>

\* one page: the user leaves picked ticked and may tick "Load more"; the
\* items left unticked are removed from the selection, then the ticked ones
\* are added
PagePrompt(picked, loadMore) ==
    /\ selPc = "paging"
    /\ LET pageItems == pageItemsOf(filtered, page)
           hasMore == hasMoreOf(filtered, page)
           unpicked == Range(pageItems) \ picked
           removed == UNION {filesOf(selTree, f) : f \in unpicked}
           added == UNION {filesOf(selTree, f) : f \in picked}
           unticked == {f \in unpicked : isChecked(selTree, f, selectedPaths)}
       IN  /\ picked \subseteq Range(pageItems)
           /\ loadMore => hasMore
           /\ selectedPaths' = (selectedPaths \ removed) \cup added
           /\ everAdded' = everAdded \cup added
           /\ excused' = (excused \cup UNION {filesOf(selTree, f) : f \in unticked})
                            \ added
           /\ IF loadMore /\ hasMore
              THEN page' = page + 1 /\ selPc' = "paging"
              ELSE page' = page /\ selPc' = "prompt"
    /\ UNCHANGED <<selTree, filtered, filterRounds>>
    /\ UNCHANGED <<anonVars, mapVars, cryptoVars, secretVars, pushVars,
                   storeVars, batchVars, copyVars, scanVars>>

NextSelect ==
    \/ SelectStart
    \/ \E searchTerm \in Queries, confirmExit \in BOOLEAN :
          FilterPrompt(searchTerm, confirmExit)
    \/ \E picked \in SUBSET IndexItems, loadMore \in BOOLEAN :
          PagePrompt(picked, loadMore)

SpecSelect == InitSelect /\ [][NextSelect]_vars

\* C30: when selectFiles returns, every file that was added to the selection
\* is in the returned list unless the user has since unticked it, or unticked
\* a folder that holds it and was shown ticked; the returned list holds files
\* only, never folders.
C30_SelectionsPersist ==
    selPc = "returned" =>
        /\ \A fp \in everAdded : fp \in selectedPaths \/ fp \in excused
        /\ \A fp \in selectedPaths : ~isDirectory(selTree, fp)

=============================================================================
